---- MODULE Spec2Model ----
(***************************************************************************)
(* simplereaderd: the content store (POST /uploadBook over the "books"     *)
(* table and the library directory) and the sync store (POST /update,      *)
(* /delete, /check, /getSince over the user_* tables).                     *)
(***************************************************************************)
EXTENDS Integers, Sequences, FiniteSets, TLC

(***************************************************************************)
(* Bounds of the model.                                                    *)
(***************************************************************************)
MaxUploads == 2      \* upload requests accepted over a run
MaxNow == 2          \* largest value of the server clock
MaxOps == 3          \* mutating sync requests over a run
MaxItem == 1         \* item ids 1..MaxItem
MaxLimit == 2        \* largest limit a /getSince request asks for
MaxFeedItem == 2     \* item ids 1..MaxFeedItem written before a client pages
MaxCascadeOps == 4   \* store calls over a run of the cascade of a book Delete
MaxCascadeItem == 2  \* bookmark ids 1..MaxCascadeItem under the deleted book
MaxFrameOps == 4     \* store calls over a run with two owners and two books
MaxClock == 3        \* the session clock runs over 1..MaxClock
MaxTokenLife == 2    \* tokenTimeout, in clock steps, is in 1..MaxTokenLife
MaxSessionOps == 3   \* calls of the session manager over a run
MaxThreadOps == 3    \* calls of the session manager by concurrent threads over a run
MaxGateOps == 3      \* logins and token-carrying requests over a run
MaxAssetOps == 2     \* sync requests made while books are being uploaded
MaxRaceOps == 3      \* requests two request threads start between them
MaxDownloadOps == 2  \* downloads made while books are uploaded
MaxPageOps == 3      \* writes under two books before a client pages
MaxPartialOps == 4   \* sync requests over a run in which a Delete can be cut off
MaxOwnerOps == 3     \* requests two owners make between them

(***************************************************************************)
(* Values.                                                                 *)
(***************************************************************************)
Uploaders == {"c1", "c2"}
Hashes == {"h1", "h2"}
NotHex == "nothex"
ClientMadeId == "x1"

\* Config::maxFileSize(), scaled to the model's byte counts; it is also
\* drogon's setClientMaxBodySize, so no larger file part arrives
maxFileSize == 2

\* the bytes of a file, known by their digest and their length
Content == [sha : Hashes, size : 1..maxFileSize]
Partial == [sha |-> "partial", size |-> 0]

Owners == {"alice"}
Payloads == {"p1", "p2"}
\* the ids of the assets the sync store starts with, in the order SQLite sorts them,
\* and an id no asset has
KnownFileIds == <<"u1">>
UnknownFileId == "u9"
\* the table names a request can carry
Tables == {"books", "bookmark", "highlight", "note"}

\* deleted_at IS NULL
NULL == -1

VARIABLES books, library, tmp, up, nUploads, db, now, nOps, resp, feed,
          sessions, issued, auth, thr, mu

uploadVars == <<books, library, tmp, up, nUploads>>
syncVars == <<db, now, nOps, resp>>
sessionVars == <<sessions, issued, auth>>
threadVars == <<thr, mu>>
vars == <<books, library, tmp, up, nUploads, db, now, nOps, resp, feed,
          sessions, issued, auth, thr, mu>>

(***************************************************************************)
(* Pure helpers of the upload handler.                                     *)
(***************************************************************************)
\* sha256_file_hex: the digest of the bytes at a path
sha256_file_hex(bytes) == bytes.sha

\* fs::file_size
file_size(bytes) == bytes.size

\* isHex64: 64 hex digits
isHex64(s) == s \in Hashes

unknownId_OnlyEmpty(fileId) == fileId = ""

\* const bool unknownId = fileId.empty() || fileId == "0";
unknownId(fileId) == fileId = "" \/ fileId = "0"

\* drogon::utils::getUuid(): an id never handed out before
getUuid(n) == "u" \o ToString(n)

lookupFileIdByHashSize_Never(rows, sha, size) == ""

\* SELECT file_id FROM books WHERE sha256 = ?1 AND filesize = ?2 LIMIT 1
lookupFileIdByHashSize(rows, sha, size) ==
    IF \E r \in rows : r.sha256 = sha /\ r.filesize = size
    THEN (CHOOSE r \in rows : r.sha256 = sha /\ r.filesize = size).file_id
    ELSE ""

booksAccepts_NoUnique(rows, row) ==
    \A r \in rows : r.file_id # row.file_id

\* the constraints of table books: file_id PRIMARY KEY, UNIQUE (sha256, filesize)
booksAccepts(rows, row) ==
    /\ \A r \in rows : r.file_id # row.file_id
    /\ \A r \in rows : ~(r.sha256 = row.sha256 /\ r.filesize = row.filesize)

insertBookRecord_Replace(rows, row) ==
    {r \in rows : /\ r.file_id # row.file_id
                  /\ ~(r.sha256 = row.sha256 /\ r.filesize = row.filesize)} \cup {row}

\* INSERT INTO books(file_id, sha256, filesize, location, ...) VALUES (...):
\* the table with the new row, or the table as it was when a constraint fails
insertBookRecord(rows, row) ==
    IF booksAccepts(rows, row) THEN rows \cup {row} ELSE rows

exceedsMax_Never(sizeClaim) == FALSE

\* if ( (maxSize > 0) && (sizeClaim > maxSize) ) return err("too_large");
exceedsMax(sizeClaim) == maxFileSize > 0 /\ sizeClaim > maxFileSize

BookRow(fileId, sha, size) ==
    [file_id |-> fileId, sha256 |-> sha, filesize |-> size, location |-> fileId]

NoFilePart == [sha |-> "", size |-> 0]

\* ok(fileId, size, sha) and err(code)
NoResp == [code |-> "none", fileId |-> "", size |-> 0, sha256 |-> ""]
OkResp(fileId, size, sha) == [code |-> "ok", fileId |-> fileId, size |-> size, sha256 |-> sha]
ErrResp(code) == [NoResp EXCEPT !.code = code]

\* a request's locals: where it is (pc), the return statement it left by (ret),
\* the multipart parameters, the temp file's name and the id chosen for it
IdleUp ==
    [pc |-> "idle", ret |-> "none", fileId |-> "", shaHex |-> "", sizeClaim |-> 0,
     tmpPath |-> 0, newId |-> "", resp |-> NoResp]

\* a request that returned before it chose an id, and one that returned after
Done(ret, newId, rsp) == [IdleUp EXCEPT !.pc = "done", !.ret = ret, !.newId = newId, !.resp = rsp]
Return(me, ret, rsp) == [me EXCEPT !.pc = "done", !.ret = ret, !.resp = rsp]

\* the fileId values a client can send: none, the sentinel, an id it made up,
\* or an id the server has handed out
ClientFileIds == {"", "0", ClientMadeId} \cup {r.file_id : r \in books}

Remove(f, k) == [x \in DOMAIN f \ {k} |-> f[x]]
Put(f, k, v) == [x \in DOMAIN f \cup {k} |-> IF x = k THEN v ELSE f[x]]

(***************************************************************************)
(* POST /uploadBook.  A request runs in four steps, each of them one       *)
(* access to the shared table or the shared library directory; requests of *)
(* different clients interleave between the steps.                         *)
(***************************************************************************)
SaveFaults == {"none", "mkstemp", "saveAs"}
MoveFaults == {"none", "stat", "mkdir", "copy"}

\* parse and validate, size policy, dedup lookup, save the file part to a temp file
UploadBegin(u, fileId, shaHex, sizeClaim, file, fault) ==
    /\ up[u].pc \in {"idle", "done"}
    /\ nUploads < MaxUploads
    /\ nUploads' = nUploads + 1
    /\ UNCHANGED <<books, library>>
    /\ LET t == nUploads + 1
           existing == lookupFileIdByHashSize(books, shaHex, sizeClaim)
           return(site, rsp) == [up EXCEPT ![u] = Done(site, "", rsp)]
       IN  IF ~isHex64(shaHex) \/ sizeClaim <= 0
           THEN up' = return("invalid", ErrResp("invalid_request")) /\ tmp' = tmp
           ELSE IF exceedsMax(sizeClaim)
           THEN up' = return("too_large", ErrResp("too_large")) /\ tmp' = tmp
           ELSE IF unknownId(fileId) /\ existing # ""
           THEN up' = return("dedup", OkResp(existing, sizeClaim, shaHex)) /\ tmp' = tmp
           ELSE IF file = NoFilePart
           THEN up' = return("nofile", ErrResp("invalid_request")) /\ tmp' = tmp
           ELSE IF fault = "mkstemp"
           THEN up' = return("saveError", ErrResp("server_error")) /\ tmp' = tmp
           ELSE IF fault = "saveAs"
           THEN /\ up' = return("saveError", ErrResp("server_error"))
                /\ tmp' = Put(tmp, t, Partial)
           ELSE /\ up' = [up EXCEPT ![u] = [IdleUp EXCEPT !.pc = "saved", !.fileId = fileId,
                              !.shaHex = shaHex, !.sizeClaim = sizeClaim, !.tmpPath = t]]
                /\ tmp' = Put(tmp, t, file)

\* verify size and digest of the temp file, choose the id, move into the library
UploadMove(u, fault) ==
    /\ up[u].pc = "saved"
    /\ UNCHANGED <<books, nUploads>>
    /\ LET me == up[u]
           file == tmp[me.tmpPath]
           actualSize == file_size(file)
           actualSha == sha256_file_hex(file)
           newId == IF unknownId(me.fileId) THEN getUuid(me.tmpPath) ELSE me.fileId
           return(site, rsp) == [up EXCEPT ![u] = Done(site, "", rsp)]
       IN  /\ tmp' = Remove(tmp, me.tmpPath)
           /\ IF fault = "stat"
              THEN up' = return("moveError", ErrResp("server_error")) /\ library' = library
              ELSE IF actualSize # me.sizeClaim
              THEN up' = return("sizeMismatch", ErrResp("server_error")) /\ library' = library
              ELSE IF actualSha # me.shaHex
              THEN up' = return("hashMismatch", ErrResp("checksum_mismatch")) /\ library' = library
              ELSE IF fault \in {"mkdir", "copy"}
              THEN up' = return("moveError", ErrResp("server_error")) /\ library' = library
              ELSE /\ library' = Put(library, newId, file)
                   /\ up' = [up EXCEPT ![u].pc = "moved", ![u].newId = newId]

\* db.insertBookRecord(newId, actualSha, actualSize, dstPath, tnow)
UploadInsert(u) ==
    /\ up[u].pc = "moved"
    /\ UNCHANGED <<library, tmp, nUploads>>
    /\ LET me == up[u]
           row == BookRow(me.newId, me.shaHex, me.sizeClaim)
       IN  IF insertBookRecord(books, row) # books
           THEN /\ books' = insertBookRecord(books, row)
                /\ up' = [up EXCEPT ![u] =
                              Return(me, "inserted", OkResp(me.newId, me.sizeClaim, me.shaHex))]
           ELSE /\ books' = books
                /\ up' = [up EXCEPT ![u].pc = "insertFailed"]

\* catch (...): look the content up and return the winner's id
UploadRaceLookup(u) ==
    /\ up[u].pc = "insertFailed"
    /\ UNCHANGED <<books, library, tmp, nUploads>>
    /\ LET me == up[u]
           existing == lookupFileIdByHashSize(books, me.shaHex, me.sizeClaim)
       IN  IF existing # ""
           THEN up' = [up EXCEPT ![u] =
                           Return(me, "raceLost", OkResp(existing, me.sizeClaim, me.shaHex))]
           ELSE up' = [up EXCEPT ![u] = Return(me, "insertError", ErrResp("server_error"))]

\* the request threads that can be inside the session manager, and where a
\* thread that is in no call stands
Workers == {"w1", "w2"}
IdleWorker == [pc |-> "idle", token |-> "", username |-> "", device |-> "",
               expires |-> 0, nowRead |-> 0, seq |-> 0]

\* the last call of the session manager: what was asked and what it returned
NoAuth == [op |-> "none", token |-> "", username |-> "", expires |-> 0]

\* the paging client of the change feed before it has asked for anything
NoFeed ==
    [phase |-> "writing", owner |-> "", table |-> "", since0 |-> 0, since |-> 0,
     limit |-> 0, seen |-> {}]

\* the last exchange: the table and key the request named, the RowState the
\* handler read before it acted (prior), and the handler's answer
NoSyncResp ==
    [op |-> "none", code |-> "none", ts |-> 0, exists |-> FALSE, deleted |-> FALSE,
     table |-> "", key |-> <<"", "", 0>>, prior |-> "none"]

UploadInit ==
    /\ books = {}
    /\ library = << >>
    /\ tmp = << >>
    /\ up = [u \in Uploaders |-> IdleUp]
    /\ nUploads = 0
    /\ db = [t \in {"user_books", "user_bookmarks", "user_highlights", "user_notes"} |-> << >>]
    /\ now = 1
    /\ nOps = 0
    /\ resp = NoSyncResp
    /\ feed = NoFeed
    /\ sessions = << >>
    /\ issued = << >>
    /\ auth = NoAuth
    /\ thr = [w \in Workers |-> IdleWorker]
    /\ mu = "free"

\* the requests a client can send; one request stands for all that leave by
\* the same early return
AnyFile == [sha |-> "h1", size |-> 1]
ClaimedSizes(shaHex) == IF shaHex = NotHex THEN {1} ELSE 0..(maxFileSize + 1)
Rejected(shaHex, sizeClaim) == shaHex = NotHex \/ sizeClaim <= 0 \/ sizeClaim > maxFileSize
SentFileIds(shaHex, sizeClaim) == IF Rejected(shaHex, sizeClaim) THEN {""} ELSE ClientFileIds
SentFaults(shaHex, sizeClaim) == IF Rejected(shaHex, sizeClaim) THEN {"none"} ELSE SaveFaults
SentFiles(fault) == IF fault # "none" THEN {AnyFile} ELSE Content \cup {NoFilePart}

\* a client sends an upload request
UploadRequest(u) ==
    /\ up[u].pc \in {"idle", "done"}
    /\ nUploads < MaxUploads
    /\ \E shaHex \in Hashes \cup {NotHex} :
       \E sizeClaim \in ClaimedSizes(shaHex) :
       \E fileId \in SentFileIds(shaHex, sizeClaim), fault \in SentFaults(shaHex, sizeClaim) :
       \E file \in SentFiles(fault) :
          UploadBegin(u, fileId, shaHex, sizeClaim, file, fault)

UploadNext ==
    \/ (\E u \in Uploaders : UploadRequest(u)) /\ UNCHANGED <<syncVars, feed, sessionVars, threadVars>>
    \/ (\E u \in Uploaders, fault \in MoveFaults : UploadMove(u, fault))
          /\ UNCHANGED <<syncVars, feed, sessionVars, threadVars>>
    \/ (\E u \in Uploaders : UploadInsert(u)) /\ UNCHANGED <<syncVars, feed, sessionVars, threadVars>>
    \/ (\E u \in Uploaders : UploadRaceLookup(u)) /\ UNCHANGED <<syncVars, feed, sessionVars, threadVars>>

SpecUpload == UploadInit /\ [][UploadNext]_vars

(***************************************************************************)
(* The sync store: tables user_books, user_bookmarks, user_highlights and   *)
(* user_notes.  A table is a function from the primary key                  *)
(* <<username, file_id, id>> (id = 0 in user_books) to the row's columns.   *)
(***************************************************************************)
Row(payload, updated_at, deleted_at) ==
    [payload |-> payload, updated_at |-> updated_at, deleted_at |-> deleted_at]

bookExists_Always(fileId) == TRUE

\* SELECT 1 FROM books WHERE file_id=?1 LIMIT 1
bookExists(fileId) == \E r \in books : r.file_id = fileId

\* the RowState of a SELECT updated_at, deleted_at ... LIMIT 1
fetchRowState(t, key) ==
    IF key \in DOMAIN db[t]
    THEN LET hasDel == db[t][key].deleted_at # NULL
         IN  [exists |-> ~hasDel, deleted |-> hasDel,
              updatedAt |-> db[t][key].updated_at,
              deletedAt |-> IF hasDel THEN db[t][key].deleted_at ELSE 0]
    ELSE [exists |-> FALSE, deleted |-> FALSE, updatedAt |-> 0, deletedAt |-> 0]

select_userBooks_byUserAndFileId(username, fileId) ==
    fetchRowState("user_books", <<username, fileId, 0>>)

select_byUserFileAndItemId_AnyOwner(t, username, fileId, itemId) ==
    IF \E k \in DOMAIN db[t] : k[2] = fileId /\ k[3] = itemId
    THEN fetchRowState(t, CHOOSE k \in DOMAIN db[t] : k[2] = fileId /\ k[3] = itemId)
    ELSE fetchRowState(t, <<username, fileId, itemId>>)

\* SELECT updated_at, deleted_at FROM t WHERE username = ?1 AND file_id = ?2 AND id = ?3
select_byUserFileAndItemId(t, username, fileId, itemId) ==
    fetchRowState(t, <<username, fileId, itemId>>)

\* const long long serverTs = st.deleted ? st.deletedAt : st.updatedAt;
serverTsOf(st) == IF st.deleted THEN st.deletedAt ELSE st.updatedAt

isStale_Never(force, serverTs, clientTs) == FALSE

isStale_IgnoresForce(force, serverTs, clientTs) == serverTs > 0 /\ clientTs < serverTs

\* if ( !force && (serverTs > 0) && (clientTs < serverTs) ) return conflict(serverTs);
isStale(force, serverTs, clientTs) ==
    ~force /\ serverTs > 0 /\ clientTs < serverTs

upsertRow_KeepTombstone(t, key, payload, resurrect, tnow) ==
    IF key \in DOMAIN db[t]
    THEN Put(db[t], key, Row(payload, tnow, db[t][key].deleted_at))
    ELSE Put(db[t], key, Row(payload, tnow, NULL))

\* INSERT ... VALUES (..., tnow, NULL) ON CONFLICT(key) DO UPDATE SET payload,
\*   updated_at = excluded.updated_at,
\*   deleted_at = CASE WHEN resurrect THEN NULL ELSE deleted_at END
upsertRow(t, key, payload, resurrect, tnow) ==
    IF key \in DOMAIN db[t]
    THEN Put(db[t], key,
             Row(payload, tnow, IF resurrect THEN NULL ELSE db[t][key].deleted_at))
    ELSE Put(db[t], key, Row(payload, tnow, NULL))

softDeleteRow_KeepsUpdatedAt(t, key, tnow) ==
    [db[t] EXCEPT ![key].deleted_at = tnow]

softDeleteRow_Purge(t, key, tnow) == [k \in DOMAIN db[t] \ {key} |-> db[t][k]]

\* UPDATE t SET deleted_at=tnow, updated_at=tnow WHERE username, file_id, id
softDeleteRow(t, key, tnow) ==
    [k \in DOMAIN db[t] |->
        IF k = key THEN [db[t][k] EXCEPT !.deleted_at = tnow, !.updated_at = tnow]
        ELSE db[t][k]]

softDeleteAll_None(t, username, fileId, tnow) == db[t]

softDeleteAll_EveryOwner(t, username, fileId, tnow) ==
    [k \in DOMAIN db[t] |->
        IF k[2] = fileId
        THEN [db[t][k] EXCEPT !.deleted_at = tnow, !.updated_at = tnow]
        ELSE db[t][k]]

\* UPDATE t SET deleted_at=tnow, updated_at=tnow WHERE username=?1 AND file_id=?2
softDeleteAll(t, username, fileId, tnow) ==
    [k \in DOMAIN db[t] |->
        IF k[1] = username /\ k[2] = fileId
        THEN [db[t][k] EXCEPT !.deleted_at = tnow, !.updated_at = tnow]
        ELSE db[t][k]]

\* the table a request's "table" value is stored in ("" when the handler knows none)
StorageOf(table) ==
    CASE table = "books" -> "user_books"
      [] table = "bookmark" -> "user_bookmarks"
      [] table = "highlight" -> "user_highlights"
      [] OTHER -> ""

KeyOf(table, username, fileId, itemId) ==
    <<username, fileId, IF table = "books" THEN 0 ELSE itemId>>

PriorOf(st) == IF st.deleted THEN "tombstoned" ELSE IF st.exists THEN "live" ELSE "absent"
Exchange(rsp, table, key, prior) ==
    [rsp EXCEPT !.table = table, !.key = key, !.prior = prior]
SyncResp(op, code, ts) == [NoSyncResp EXCEPT !.op = op, !.code = code, !.ts = ts]

storeUnlessStale_Always(t, key, payload, tnow, stale) ==
    upsertRow(t, key, payload, TRUE, tnow)

\* return conflict(serverTs) comes before the insert...() call with resurrect = true
storeUnlessStale(t, key, payload, tnow, stale) ==
    IF stale THEN db[t] ELSE upsertRow(t, key, payload, TRUE, tnow)

nowStored_ClientTs(clientTs) == clientTs

\* const long long tnow = nowMs();
nowMs(clientTs) == now

(***************************************************************************)
(* POST /update of an authenticated user                                    *)
(***************************************************************************)
Push(username, table, fileId, itemId, payload, clientTs, force) ==
    /\ nOps' = nOps + 1
    /\ now' = now
    /\ LET key == KeyOf(table, username, fileId, itemId)
       IN  IF StorageOf(table) = "" \/ ~bookExists(fileId)
           THEN /\ resp' = Exchange(SyncResp("push", "invalid_request", 0), table, key, "none")
                /\ db' = db
           ELSE LET t == StorageOf(table)
                    st == IF table = "books"
                          THEN select_userBooks_byUserAndFileId(username, fileId)
                          ELSE select_byUserFileAndItemId(t, username, fileId, itemId)
                    serverTs == serverTsOf(st)
                    stale == isStale(force, serverTs, clientTs)
                    tnow == nowMs(clientTs)
                IN  /\ resp' = Exchange(IF stale THEN SyncResp("push", "conflict", serverTs)
                                                 ELSE SyncResp("push", "ok", tnow),
                                        table, key, PriorOf(st))
                    /\ db' = [db EXCEPT ![t] = storeUnlessStale(t, key, payload, tnow, stale)]

alreadyTombstoned_Never(st) == FALSE

\* if (st.deleted) return ok(st.deletedAt); // already tombstoned
alreadyTombstoned(st) == st.deleted

(***************************************************************************)
(* POST /delete of an authenticated user                                    *)
(***************************************************************************)
rowMissing_Never(st) == FALSE

\* if (!st.exists && !st.deleted) return err("not_found");
rowMissing(st) == ~st.exists /\ ~st.deleted

Delete(username, table, fileId, itemId) ==
    /\ nOps' = nOps + 1
    /\ now' = now
    /\ LET key == KeyOf(table, username, fileId, itemId)
       IN  IF StorageOf(table) = ""
           THEN /\ resp' = Exchange(SyncResp("delete", "invalid_request", 0), table, key, "none")
                /\ db' = db
           ELSE LET t == StorageOf(table)
                    st == IF table = "books"
                          THEN select_userBooks_byUserAndFileId(username, fileId)
                          ELSE select_byUserFileAndItemId(t, username, fileId, itemId)
                    tnow == now
                    said(code, ts) == Exchange(SyncResp("delete", code, ts), table, key, PriorOf(st))
                IN  IF rowMissing(st)
                    THEN /\ resp' = said("not_found", 0)
                         /\ db' = db
                    ELSE IF alreadyTombstoned(st)
                    THEN /\ resp' = said("ok", st.deletedAt)
                         /\ db' = db
                    ELSE IF table = "books"
                    THEN /\ db' = [db EXCEPT
                                     !["user_books"] = softDeleteRow("user_books", key, tnow),
                                     !["user_bookmarks"] =
                                         softDeleteAll("user_bookmarks", username, fileId, tnow),
                                     !["user_highlights"] =
                                         softDeleteAll("user_highlights", username, fileId, tnow)]
                         /\ resp' = said("ok", tnow)
                    ELSE /\ db' = [db EXCEPT ![t] = softDeleteRow(t, key, tnow)]
                         /\ resp' = said("ok", tnow)

ProbeResult_ExistsOnly(username, table, fileId, itemId) ==
    IF table \notin {"books", "bookmark", "highlight"}
    THEN SyncResp("probe", "invalid_request", 0)
    ELSE LET st == IF table = "books"
                   THEN select_userBooks_byUserAndFileId(username, fileId)
                   ELSE select_byUserFileAndItemId(
                            IF table = "highlight" THEN "user_highlights" ELSE "user_bookmarks",
                            username, fileId, itemId)
         IN  IF ~st.exists
             THEN [SyncResp("probe", "ok", 0) EXCEPT !.exists = FALSE, !.deleted = FALSE]
             ELSE [SyncResp("probe", "ok", st.updatedAt) EXCEPT !.exists = TRUE, !.deleted = FALSE]

\* what POST /check answers for a key: ok(exists, deleted[, ts])
ProbeResult(username, table, fileId, itemId) ==
    IF table \notin {"books", "bookmark", "highlight"}
    THEN SyncResp("probe", "invalid_request", 0)
    ELSE LET st == IF table = "books"
                   THEN select_userBooks_byUserAndFileId(username, fileId)
                   ELSE select_byUserFileAndItemId(
                            IF table = "highlight" THEN "user_highlights" ELSE "user_bookmarks",
                            username, fileId, itemId)
         IN  IF ~st.exists /\ ~st.deleted
             THEN [SyncResp("probe", "ok", 0) EXCEPT !.exists = FALSE, !.deleted = FALSE]
             ELSE IF st.deleted
             THEN [SyncResp("probe", "ok", st.deletedAt) EXCEPT !.exists = FALSE, !.deleted = TRUE]
             ELSE [SyncResp("probe", "ok", st.updatedAt) EXCEPT !.exists = TRUE, !.deleted = FALSE]

(***************************************************************************)
(* POST /check of an authenticated user                                     *)
(***************************************************************************)
Probe(username, table, fileId, itemId) ==
    /\ resp' = ProbeResult(username, table, fileId, itemId)
    /\ UNCHANGED <<db, now, nOps>>

\* the server's clock moves on
Tick ==
    /\ now < MaxNow
    /\ now' = now + 1
    /\ UNCHANGED <<db, nOps, resp>>

ItemIds == 1..MaxItem
RequestFileIds == {KnownFileIds[i] : i \in DOMAIN KnownFileIds} \cup {UnknownFileId}
ClientTimes == 0..(MaxNow + 1)

\* the requests a client can send; one request stands for all that the handler
\* turns down for the same reason (unknown table, unknown fileId), and one forced
\* Push, with the oldest timestamp, for all forced ones: force skips the comparison
TurnedDown(table, fileId) == StorageOf(table) = "" \/ ~bookExists(fileId)
ItemIdsOf(table, fileId) ==
    IF table = "books" THEN {0} ELSE IF TurnedDown(table, fileId) THEN {1} ELSE ItemIds
FileIdsOf(table) == IF StorageOf(table) = "" THEN {KnownFileIds[1]} ELSE RequestFileIds
PayloadsOf(table, fileId) == IF TurnedDown(table, fileId) THEN {"p1"} ELSE Payloads
ClientTimesOf(table, fileId, force) ==
    IF TurnedDown(table, fileId) \/ force THEN {0} ELSE ClientTimes
ForcesOf(table, fileId) == IF TurnedDown(table, fileId) THEN {FALSE} ELSE BOOLEAN

\* the store after the assets of KnownFileIds were uploaded, before any sync request
SyncInit ==
    /\ books = {BookRow(KnownFileIds[i], "h1", i) : i \in DOMAIN KnownFileIds}
    /\ library = [id \in {KnownFileIds[i] : i \in DOMAIN KnownFileIds} |->
                     [sha |-> "h1",
                      size |-> CHOOSE i \in DOMAIN KnownFileIds : KnownFileIds[i] = id]]
    /\ tmp = << >>
    /\ up = [u \in Uploaders |-> IdleUp]
    /\ nUploads = 0
    /\ db = [t \in {"user_books", "user_bookmarks", "user_highlights", "user_notes"} |-> << >>]
    /\ now = 1
    /\ nOps = 0
    /\ resp = NoSyncResp
    /\ feed = NoFeed
    /\ sessions = << >>
    /\ issued = << >>
    /\ auth = NoAuth
    /\ thr = [w \in Workers |-> IdleWorker]
    /\ mu = "free"

PushAny ==
    /\ nOps < MaxOps
    /\ \E username \in Owners, table \in Tables :
       \E fileId \in FileIdsOf(table) :
       \E itemId \in ItemIdsOf(table, fileId), payload \in PayloadsOf(table, fileId),
          force \in ForcesOf(table, fileId) :
       \E clientTs \in ClientTimesOf(table, fileId, force) :
           Push(username, table, fileId, itemId, payload, clientTs, force)

DeleteAny ==
    /\ nOps < MaxOps
    /\ \E username \in Owners, table \in Tables :
       \E fileId \in FileIdsOf(table) :
       \E itemId \in ItemIdsOf(table, fileId) : Delete(username, table, fileId, itemId)

ProbeAny ==
    \E username \in Owners, table \in Tables :
    \E fileId \in FileIdsOf(table) :
    \E itemId \in ItemIdsOf(table, fileId) : Probe(username, table, fileId, itemId)

SyncNext ==
    \/ PushAny /\ UNCHANGED <<uploadVars, feed, sessionVars, threadVars>>
    \/ DeleteAny /\ UNCHANGED <<uploadVars, feed, sessionVars, threadVars>>
    \/ ProbeAny /\ UNCHANGED <<uploadVars, feed, sessionVars, threadVars>>
    \/ Tick /\ UNCHANGED <<uploadVars, feed, sessionVars, threadVars>>

SpecSync == SyncInit /\ [][SyncNext]_vars

\* forced Pushes with every client timestamp, between Deletes and clock ticks
ForcedPushAny ==
    /\ nOps < MaxOps
    /\ \E username \in Owners, table \in Tables :
       \E fileId \in FileIdsOf(table) :
       \E itemId \in ItemIdsOf(table, fileId), payload \in PayloadsOf(table, fileId),
          clientTs \in ClientTimes :
           Push(username, table, fileId, itemId, payload, clientTs, TRUE)

ForceNext ==
    \/ ForcedPushAny /\ UNCHANGED <<uploadVars, feed, sessionVars, threadVars>>
    \/ DeleteAny /\ UNCHANGED <<uploadVars, feed, sessionVars, threadVars>>
    \/ Tick /\ UNCHANGED <<uploadVars, feed, sessionVars, threadVars>>

SpecForce == SyncInit /\ [][ForceNext]_vars

(***************************************************************************)
(* The cascade of a book Delete: rows of every user_* table under one book *)
(***************************************************************************)
\* Database::insertUserNote, the upsert of the user_notes table
insertUserNote(username, fileId, itemId, payload, resurrect, tnow) ==
    /\ nOps' = nOps + 1
    /\ now' = now
    /\ LET key == <<username, fileId, itemId>>
       IN  /\ resp' = Exchange(SyncResp("insertUserNote", "ok", tnow), "note", key,
                               PriorOf(fetchRowState("user_notes", key)))
           /\ db' = [db EXCEPT !["user_notes"] =
                                   upsertRow("user_notes", key, payload, resurrect, tnow)]

CascadeTables == {"books", "bookmark", "highlight"}
CascadeItemIds(table) ==
    IF table = "books" THEN {0}
    ELSE IF table = "bookmark" THEN 1..MaxCascadeItem ELSE {1}

CascadePush ==
    /\ nOps < MaxCascadeOps
    /\ \E username \in Owners, table \in CascadeTables :
       \E itemId \in CascadeItemIds(table) :
           Push(username, table, KnownFileIds[1], itemId, "p1", 0, TRUE)

CascadeDelete ==
    /\ nOps < MaxCascadeOps
    /\ \E username \in Owners, table \in CascadeTables :
       \E itemId \in CascadeItemIds(table) :
           Delete(username, table, KnownFileIds[1], itemId)

CascadeStoreNote ==
    /\ nOps < MaxCascadeOps
    /\ \E username \in Owners :
           insertUserNote(username, KnownFileIds[1], 1, "p1", TRUE, now)

CascadeNext ==
    \/ CascadePush /\ UNCHANGED <<uploadVars, feed, sessionVars, threadVars>>
    \/ CascadeDelete /\ UNCHANGED <<uploadVars, feed, sessionVars, threadVars>>
    \/ CascadeStoreNote /\ UNCHANGED <<uploadVars, feed, sessionVars, threadVars>>
    \/ Tick /\ UNCHANGED <<uploadVars, feed, sessionVars, threadVars>>

SpecCascade == SyncInit /\ [][CascadeNext]_vars

(***************************************************************************)
(* Two owners and two uploaded books: what a book Delete leaves alone      *)
(***************************************************************************)
FrameOwners == {"alice", "bob"}
FrameFileIds == <<"u1", "u2">>

\* the store after the two assets were uploaded, before any sync request
FrameInit ==
    /\ books = {BookRow(FrameFileIds[i], "h1", i) : i \in DOMAIN FrameFileIds}
    /\ library = [id \in {FrameFileIds[i] : i \in DOMAIN FrameFileIds} |->
                     [sha |-> "h1",
                      size |-> CHOOSE i \in DOMAIN FrameFileIds : FrameFileIds[i] = id]]
    /\ tmp = << >>
    /\ up = [u \in Uploaders |-> IdleUp]
    /\ nUploads = 0
    /\ db = [t \in {"user_books", "user_bookmarks", "user_highlights", "user_notes"} |-> << >>]
    /\ now = 1
    /\ nOps = 0
    /\ resp = NoSyncResp
    /\ feed = NoFeed
    /\ sessions = << >>
    /\ issued = << >>
    /\ auth = NoAuth
    /\ thr = [w \in Workers |-> IdleWorker]
    /\ mu = "free"

FramePush ==
    /\ nOps < MaxFrameOps
    /\ \E username \in FrameOwners, table \in CascadeTables, i \in DOMAIN FrameFileIds :
           Push(username, table, FrameFileIds[i], IF table = "books" THEN 0 ELSE 1,
                "p1", 0, TRUE)

FrameStoreNote ==
    /\ nOps < MaxFrameOps
    /\ \E username \in FrameOwners :
           insertUserNote(username, FrameFileIds[1], 1, "p1", TRUE, now)

FrameDeleteBook ==
    /\ nOps < MaxFrameOps
    /\ \E username \in FrameOwners, i \in DOMAIN FrameFileIds :
           Delete(username, "books", FrameFileIds[i], 0)

FrameNext ==
    \/ FramePush /\ UNCHANGED <<uploadVars, feed, sessionVars, threadVars>>
    \/ FrameStoreNote /\ UNCHANGED <<uploadVars, feed, sessionVars, threadVars>>
    \/ FrameDeleteBook /\ UNCHANGED <<uploadVars, feed, sessionVars, threadVars>>
    \/ Tick /\ UNCHANGED <<uploadVars, feed, sessionVars, threadVars>>

SpecFrame == FrameInit /\ [][FrameNext]_vars

(***************************************************************************)
(* Change feed: POST /getSince, and a client that pages through it          *)
(***************************************************************************)
Min(a, b) == IF a < b THEN a ELSE b
Max(a, b) == IF a > b THEN a ELSE b

\* COALESCE(deleted_at, updated_at) AS ts
tsOf(row) == IF row.deleted_at # NULL THEN row.deleted_at ELSE row.updated_at

\* file ids compare as strings; FrameFileIds is in ascending order
fileRank(fileId) == CHOOSE i \in DOMAIN FrameFileIds : FrameFileIds[i] = fileId

\* ORDER BY ts ASC, file_id ASC, id ASC
RowBefore(t, k1, k2) ==
    \/ tsOf(db[t][k1]) < tsOf(db[t][k2])
    \/ /\ tsOf(db[t][k1]) = tsOf(db[t][k2])
       /\ \/ fileRank(k1[2]) < fileRank(k2[2])
          \/ k1[2] = k2[2] /\ k1[3] < k2[3]

RECURSIVE OrderRows(_, _)
OrderRows(t, keys) ==
    IF keys = {} THEN << >>
    ELSE LET first == CHOOSE k \in keys : \A o \in keys \ {k} : RowBefore(t, k, o)
         IN  <<first>> \o OrderRows(t, keys \ {first})

computePagingNextSince_KeepSince(sinceIn, pageTs, hitExtra) ==
    IF hitExtra THEN sinceIn
    ELSE IF pageTs # << >> THEN pageTs[Len(pageTs)]
    ELSE sinceIn

computePagingNextSince_LastReturned(sinceIn, pageTs, hitExtra) ==
    IF hitExtra THEN pageTs[Len(pageTs) - 1]
    ELSE IF pageTs # << >> THEN pageTs[Len(pageTs)]
    ELSE sinceIn

computePagingNextSince(sinceIn, pageTs, hitExtra) ==
    IF hitExtra THEN pageTs[Len(pageTs)]
    ELSE IF pageTs # << >> THEN pageTs[Len(pageTs)]
    ELSE sinceIn

listSince_ReturnsFetched(t, username, since, limit) ==
    LET matching == {k \in DOMAIN db[t] : k[1] = username /\ tsOf(db[t][k]) >= since}
        ordered == OrderRows(t, matching)
        stepped == SubSeq(ordered, 1, Min(limit + 1, Len(ordered)))
        tsSeen == [i \in 1..Len(stepped) |-> tsOf(db[t][stepped[i]])]
    IN  [rows |-> stepped,
         nextSince |-> computePagingNextSince(since, tsSeen, Len(stepped) > limit)]

\* SELECT ... WHERE username = ?1 AND COALESCE(deleted_at, updated_at) >= ?2
\*   ORDER BY ts, file_id, id LIMIT limit + 1; only the first limit rows are returned
listSince(t, username, since, limit) ==
    LET matching == {k \in DOMAIN db[t] : k[1] = username /\ tsOf(db[t][k]) >= since}
        ordered == OrderRows(t, matching)
        fetch == limit + 1
        stepped == SubSeq(ordered, 1, Min(fetch, Len(ordered)))
        tsSeen == [i \in 1..Len(stepped) |-> tsOf(db[t][stepped[i]])]
        count == Len(stepped)
    IN  [rows |-> SubSeq(stepped, 1, Min(limit, count)),
         nextSince |-> computePagingNextSince(since, tsSeen, count > limit)]

\* limit = std::max(1, std::min(1000, body["limit"].asInt()));
clampLimit(limit) == Max(1, Min(1000, limit))

\* what POST /getSince answers: ok(rows, nextSince) or invalid_request
GetSince(username, table, since, limit) ==
    IF StorageOf(table) = ""
    THEN [code |-> "invalid_request", rows |-> << >>, nextSince |-> since]
    ELSE LET page == listSince(StorageOf(table), username, since, clampLimit(limit))
         IN  [code |-> "ok", rows |-> page.rows, nextSince |-> page.nextSince]

\* a client decides to fetch every change of one table from `since` on
ClientStart(username, table, since, limit) ==
    /\ feed.phase = "writing"
    /\ feed' = [phase |-> "paging", owner |-> username, table |-> table,
                since0 |-> since, since |-> since, limit |-> limit, seen |-> {}]
    /\ UNCHANGED <<db, now, nOps, resp>>

\* the client asks for the next page with the nextSince of the page before, and
\* stops when a page brings no row it has not got already
ClientPage ==
    /\ feed.phase = "paging"
    /\ LET r == GetSince(feed.owner, feed.table, feed.since, feed.limit)
           got == {r.rows[i] : i \in DOMAIN r.rows}
       IN  /\ resp' = Exchange(SyncResp("getSince", r.code, r.nextSince),
                                    feed.table, <<feed.owner, "", 0>>, "none")
           /\ feed' = IF r.code # "ok" THEN [feed EXCEPT !.phase = "failed"]
                      ELSE IF got \subseteq feed.seen THEN [feed EXCEPT !.phase = "done"]
                      ELSE [feed EXCEPT !.seen = @ \cup got, !.since = r.nextSince]
    /\ UNCHANGED <<db, now, nOps>>

FeedTables == {"books", "bookmark"}
FeedItemIds(table) == IF table = "books" THEN {0} ELSE 1..MaxFeedItem

\* the writes that precede the paging: forced upserts and soft deletes of one owner
FeedPush ==
    /\ feed.phase = "writing"
    /\ nOps < MaxOps
    /\ \E username \in Owners, table \in FeedTables :
       \E itemId \in FeedItemIds(table) :
           Push(username, table, KnownFileIds[1], itemId, "p1", 0, TRUE)

FeedDelete ==
    /\ feed.phase = "writing"
    /\ nOps < MaxOps
    /\ \E username \in Owners, table \in FeedTables :
       \E itemId \in FeedItemIds(table) :
           Delete(username, table, KnownFileIds[1], itemId)

FeedTick == feed.phase = "writing" /\ Tick

FeedStart ==
    /\ feed.phase = "writing"
    /\ \E username \in Owners, table \in Tables, since \in 0..MaxNow, limit \in 0..MaxLimit :
           ClientStart(username, table, since, limit)

FeedNext ==
    \/ FeedPush /\ UNCHANGED <<uploadVars, feed, sessionVars, threadVars>>
    \/ FeedDelete /\ UNCHANGED <<uploadVars, feed, sessionVars, threadVars>>
    \/ FeedTick /\ UNCHANGED <<uploadVars, feed, sessionVars, threadVars>>
    \/ FeedStart /\ UNCHANGED <<uploadVars, sessionVars, threadVars>>
    \/ ClientPage /\ UNCHANGED <<uploadVars, sessionVars, threadVars>>

SpecFeed == SyncInit /\ [][FeedNext]_vars


(***************************************************************************)
(* SessionManager: the in-memory map of bearer tokens                      *)
(***************************************************************************)
SessionOwners == {"alice", "bob"}
Devices == {"d1"}
\* makeToken() draws 32 random bytes; two draws can name the same token
Tokens == {"t1", "t2"}
\* assignInt("tokentimeout", tokenTimeout_, v > 0)
TokenLives == 1..MaxTokenLife

Session(username, device, expires) ==
    [username |-> username, device |-> device, expires |-> expires]

\* what a login handed out, and as which call of the run
Issue(username, device, expires, seq) ==
    [username |-> username, device |-> device, expires |-> expires, seq |-> seq]

expired_Strict(s, t) == s.expires < t

\* it->second.expires <= now
expired(s, t) == s.expires <= t

pruneExpired_None(m) == m

pruneExpired_All(m) == << >>

\* erase every entry whose expiry has passed
pruneExpired(m) == [t \in {k \in DOMAIN m : ~expired(m[k], now)} |-> m[t]]

\* sessions_[token] = Session{...}
bindSession(m, token, s) ==
    [t \in DOMAIN m \cup {token} |-> IF t = token THEN s ELSE m[t]]

\* sessions_.erase(it)
eraseSession(m, token) == [t \in DOMAIN m \ {token} |-> m[t]]

\* SessionManager::add, with the token makeToken() drew
add(username, device, token, tokenLife) ==
    LET expires == now + tokenLife
    IN  /\ sessions' = bindSession(pruneExpired(sessions), token,
                                    Session(username, device, expires))
        /\ issued' = bindSession(issued, token, Issue(username, device, expires, nOps + 1))
        /\ auth' = [op |-> "add", token |-> token, username |-> username,
                    expires |-> expires]
        /\ nOps' = nOps + 1
        /\ UNCHANGED <<db, now, resp>>

\* SessionManager::usernameIfValid(token): the username, or "" for absent
usernameIfValid(token) ==
    LET returns(username) ==
            auth' = [op |-> "resolve", token |-> token, username |-> username,
                     expires |-> 0]
    IN  /\ nOps' = nOps + 1
        /\ UNCHANGED <<db, now, resp, issued>>
        /\ IF token = ""
           THEN returns("") /\ sessions' = sessions
           ELSE IF token \notin DOMAIN sessions
           THEN returns("") /\ sessions' = sessions
           ELSE IF expired(sessions[token], now)
           THEN returns("") /\ sessions' = eraseSession(sessions, token)
           ELSE returns(sessions[token].username) /\ sessions' = sessions

\* a successful login hands out a new session
SessionAdd ==
    /\ nOps < MaxSessionOps
    /\ \E username \in SessionOwners, device \in Devices, token \in Tokens,
          tokenLife \in TokenLives : add(username, device, token, tokenLife)

\* a request arrives with some bearer token, or with none
SessionResolve ==
    /\ nOps < MaxSessionOps
    /\ \E token \in Tokens \cup {""} : usernameIfValid(token)

\* Clock::now() moves on
SessionTick ==
    /\ now < MaxClock
    /\ now' = now + 1
    /\ UNCHANGED <<db, nOps, resp, sessionVars>>

SessionNext ==
    \/ SessionAdd /\ UNCHANGED <<uploadVars, feed, threadVars>>
    \/ SessionResolve /\ UNCHANGED <<uploadVars, feed, threadVars>>
    \/ SessionTick /\ UNCHANGED <<uploadVars, feed, threadVars>>

SpecSession == SyncInit /\ [][SessionNext]_vars

(***************************************************************************)
(* The login handler's own map g_sessions and the free function            *)
(* usernameIfValid(token) that /update, /delete, /check, /getSince,        *)
(* /uploadBook and /resolve call.  `sessions` stands for g_sessions here.  *)
(***************************************************************************)
\* int tokenSecs = 3600; one clock step stands for the hour
tokenSecs == 1

\* POST /login after verifyPassword: g_sessions[token] = Session{...}
g_login(username, device, token) ==
    LET expires == now + tokenSecs
    IN  /\ sessions' = bindSession(sessions, token, Session(username, device, expires))
        /\ issued' = bindSession(issued, token, Issue(username, device, expires, nOps + 1))
        /\ auth' = [op |-> "add", token |-> token, username |-> username,
                    expires |-> expires]
        /\ nOps' = nOps + 1
        /\ UNCHANGED <<db, now, resp>>

\* usernameIfValid(std::string token): the username, or "" for absent
g_usernameIfValid(token) ==
    LET returns(username) ==
            auth' = [op |-> "resolve", token |-> token, username |-> username,
                     expires |-> 0]
    IN  /\ nOps' = nOps + 1
        /\ UNCHANGED <<db, now, resp, issued, sessions>>
        /\ IF token = ""
           THEN returns("")
           ELSE IF token \notin DOMAIN sessions
           THEN returns("")
           ELSE IF expired(sessions[token], now)
           THEN returns("")
           ELSE returns(sessions[token].username)

LoginAdd ==
    /\ nOps < MaxSessionOps
    /\ \E username \in SessionOwners, device \in Devices, token \in Tokens :
          g_login(username, device, token)

LoginResolve ==
    /\ nOps < MaxSessionOps
    /\ \E token \in Tokens \cup {""} : g_usernameIfValid(token)

LoginNext ==
    \/ LoginAdd /\ UNCHANGED <<uploadVars, feed, threadVars>>
    \/ LoginResolve /\ UNCHANGED <<uploadVars, feed, threadVars>>
    \/ SessionTick /\ UNCHANGED <<uploadVars, feed, threadVars>>

SpecLogin == SyncInit /\ [][LoginNext]_vars

(***************************************************************************)
(* SessionManager under concurrent request threads: each statement that    *)
(* touches mu_ or sessions_ is one step of the thread that runs it.        *)
(***************************************************************************)
lockable_Always(holder) == TRUE

\* std::lock_guard<std::mutex> lk(mu_) returns once no thread holds mu_
lockable(holder) == holder = "free"

At(w, pc) == thr[w].pc = pc
Goto(w, pc) == thr' = [thr EXCEPT ![w].pc = pc]

\* add(): makeToken(), expires = Clock::now() + tokenLife; then wait for mu_
AddCall(w, username, device, token, tokenLife) ==
    /\ At(w, "idle")
    /\ nOps < MaxThreadOps
    /\ nOps' = nOps + 1
    /\ thr' = [thr EXCEPT ![w] = [pc |-> "add_lock", token |-> token,
                                  username |-> username, device |-> device,
                                  expires |-> now + tokenLife, nowRead |-> now,
                                  seq |-> nOps + 1]]
    /\ UNCHANGED <<sessions, issued, auth, mu>>

\* std::lock_guard<std::mutex> lk(mu_)
AddLock(w) ==
    /\ At(w, "add_lock")
    /\ lockable(mu)
    /\ mu' = w
    /\ Goto(w, "add_prune")
    /\ UNCHANGED <<sessions, issued, auth, nOps>>

\* pruneExpired()
AddPrune(w) ==
    /\ At(w, "add_prune")
    /\ sessions' = pruneExpired(sessions)
    /\ Goto(w, "add_insert")
    /\ UNCHANGED <<issued, auth, mu, nOps>>

\* sessions_[token] = Session{username, device, expires}
AddInsert(w) ==
    /\ At(w, "add_insert")
    /\ sessions' = bindSession(sessions, thr[w].token,
                               Session(thr[w].username, thr[w].device, thr[w].expires))
    /\ issued' = bindSession(issued, thr[w].token,
                             Issue(thr[w].username, thr[w].device, thr[w].expires,
                                   thr[w].seq))
    /\ Goto(w, "add_ret")
    /\ UNCHANGED <<auth, mu, nOps>>

\* return SessionToken{token, expires}; lk goes out of scope
AddReturn(w) ==
    /\ At(w, "add_ret")
    /\ mu' = IF mu = w THEN "free" ELSE mu
    /\ auth' = [op |-> "add", token |-> thr[w].token, username |-> thr[w].username,
                expires |-> thr[w].expires]
    /\ thr' = [thr EXCEPT ![w] = IdleWorker]
    /\ UNCHANGED <<sessions, issued, nOps>>

\* usernameIfValid(token): if (token.empty()) return {}; now = Clock::now()
ResolveCall(w, token) ==
    /\ At(w, "idle")
    /\ nOps < MaxThreadOps
    /\ nOps' = nOps + 1
    /\ IF token = ""
       THEN /\ auth' = [op |-> "resolve", token |-> "", username |-> "", expires |-> 0]
            /\ thr' = thr
       ELSE /\ auth' = auth
            /\ thr' = [thr EXCEPT ![w] = [IdleWorker EXCEPT !.pc = "res_lock",
                                                            !.token = token,
                                                            !.nowRead = now]]
    /\ UNCHANGED <<sessions, issued, mu>>

\* std::lock_guard<std::mutex> lk(mu_)
ResolveLock(w) ==
    /\ At(w, "res_lock")
    /\ lockable(mu)
    /\ mu' = w
    /\ Goto(w, "res_find")
    /\ UNCHANGED <<sessions, issued, auth, nOps>>

\* it = sessions_.find(token) and the test of it->second.expires
ResolveFind(w) ==
    /\ At(w, "res_find")
    /\ thr' = [thr EXCEPT ![w] =
                 IF thr[w].token \notin DOMAIN sessions
                 THEN [@ EXCEPT !.pc = "res_ret", !.username = ""]
                 ELSE IF expired(sessions[thr[w].token], thr[w].nowRead)
                 THEN [@ EXCEPT !.pc = "res_erase", !.username = ""]
                 ELSE [@ EXCEPT !.pc = "res_ret",
                                !.username = sessions[thr[w].token].username]]
    /\ UNCHANGED <<sessions, issued, auth, mu, nOps>>

\* sessions_.erase(it)
ResolveErase(w) ==
    /\ At(w, "res_erase")
    /\ sessions' = eraseSession(sessions, thr[w].token)
    /\ Goto(w, "res_ret")
    /\ UNCHANGED <<issued, auth, mu, nOps>>

\* return; lk goes out of scope
ResolveReturn(w) ==
    /\ At(w, "res_ret")
    /\ mu' = IF mu = w THEN "free" ELSE mu
    /\ auth' = [op |-> "resolve", token |-> thr[w].token,
                username |-> thr[w].username, expires |-> 0]
    /\ thr' = [thr EXCEPT ![w] = IdleWorker]
    /\ UNCHANGED <<sessions, issued, nOps>>

\* who logs in while the threads are watched, and the configured tokenTimeout
ThreadOwner == "alice"
ThreadDevice == "d1"
ThreadTokenLife == 1

ThreadClock ==
    /\ now < MaxClock
    /\ now' = now + 1
    /\ UNCHANGED <<nOps, sessionVars, threadVars>>

ThreadNext ==
    \/ /\ \E w \in Workers, token \in Tokens :
               AddCall(w, ThreadOwner, ThreadDevice, token, ThreadTokenLife)
       /\ UNCHANGED <<uploadVars, feed, db, now, resp>>
    \/ (\E w \in Workers : AddLock(w)) /\ UNCHANGED <<uploadVars, feed, db, now, resp>>
    \/ (\E w \in Workers : AddPrune(w)) /\ UNCHANGED <<uploadVars, feed, db, now, resp>>
    \/ (\E w \in Workers : AddInsert(w)) /\ UNCHANGED <<uploadVars, feed, db, now, resp>>
    \/ (\E w \in Workers : AddReturn(w)) /\ UNCHANGED <<uploadVars, feed, db, now, resp>>
    \/ /\ \E w \in Workers, token \in Tokens \cup {""} : ResolveCall(w, token)
       /\ UNCHANGED <<uploadVars, feed, db, now, resp>>
    \/ (\E w \in Workers : ResolveLock(w)) /\ UNCHANGED <<uploadVars, feed, db, now, resp>>
    \/ (\E w \in Workers : ResolveFind(w)) /\ UNCHANGED <<uploadVars, feed, db, now, resp>>
    \/ (\E w \in Workers : ResolveErase(w)) /\ UNCHANGED <<uploadVars, feed, db, now, resp>>
    \/ (\E w \in Workers : ResolveReturn(w)) /\ UNCHANGED <<uploadVars, feed, db, now, resp>>
    \/ ThreadClock /\ UNCHANGED <<uploadVars, feed, db, resp>>

SpecThreads == SyncInit /\ [][ThreadNext]_vars

(***************************************************************************)
(* The token check every handler but /login starts with.  `sessions` is    *)
(* the map the handler's usernameIfValid consults: g_sessions for /update, *)
(* /delete, /check, /getSince, /resolve and /uploadBook, sessions_ of the  *)
(* SessionManager for /get and /book.                                      *)
(***************************************************************************)
validUsername_AnyIssued(token) ==
    IF token = "" \/ token \notin DOMAIN sessions THEN "" ELSE sessions[token].username

\* what usernameIfValid(token) returns: "" for no token, an unknown token and
\* an expired one
validUsername(token) ==
    IF token = "" THEN ""
    ELSE IF token \notin DOMAIN sessions THEN ""
    ELSE IF expired(sessions[token], now) THEN ""
    ELSE sessions[token].username

\* the free function leaves g_sessions alone
checkedFree(token) ==
    /\ auth' = [op |-> "resolve", token |-> token, username |-> validUsername(token),
                expires |-> 0]
    /\ UNCHANGED <<sessions, issued>>

\* SessionManager::usernameIfValid erases the entry it finds expired
checkedManager(token) ==
    /\ auth' = [op |-> "resolve", token |-> token, username |-> validUsername(token),
                expires |-> 0]
    /\ sessions' = IF token \in DOMAIN sessions /\ expired(sessions[token], now)
                   THEN eraseSession(sessions, token) ELSE sessions
    /\ issued' = issued

\* if (username.empty()) return err("unauthorised");
Denied(op, table, key) ==
    /\ resp' = Exchange(SyncResp(op, "unauthorised", 0), table, key, "none")
    /\ nOps' = nOps + 1
    /\ UNCHANGED <<db, now, uploadVars>>

\* the answer of a handler that only reads
Answered(rsp, table, key) ==
    /\ resp' = Exchange(rsp, table, key, "none")
    /\ nOps' = nOps + 1
    /\ UNCHANGED <<db, now, uploadVars>>

\* the storage of the four tables POST /get serves
listStorage(table) == IF table = "note" THEN "user_notes" ELSE StorageOf(table)

\* POST /get with an id: ok(rows) with the one row of the key, tombstoned or not
GetResult(username, table, fileId, itemId) ==
    IF listStorage(table) = ""
    THEN SyncResp("get", "invalid_request", 0)
    ELSE LET t == listStorage(table)
             key == KeyOf(table, username, fileId, itemId)
         IN  IF key \notin DOMAIN db[t]
             THEN SyncResp("get", "ok", 0)
             ELSE [SyncResp("get", "ok", db[t][key].updated_at)
                      EXCEPT !.exists = TRUE, !.deleted = db[t][key].deleted_at # NULL]

\* POST /resolve: ok(exists[, fileId])
ResolveResult(sha, size) ==
    IF ~isHex64(sha) \/ size <= 0
    THEN SyncResp("resolve", "invalid_request", 0)
    ELSE [SyncResp("resolve", "ok", 0)
             EXCEPT !.exists = lookupFileIdByHashSize(books, sha, size) # ""]

DownloadResult_TrustsIndex(fileId) ==
    IF ~bookExists(fileId) THEN SyncResp("download", "not_found", 0)
    ELSE [SyncResp("download", "ok", 0) EXCEPT !.exists = TRUE]

\* GET /book/{fileId}: the file, or 404 / 500
DownloadResult(fileId) ==
    IF ~bookExists(fileId) THEN SyncResp("download", "not_found", 0)
    ELSE LET row == CHOOSE r \in books : r.file_id = fileId
         IN  IF row.location \notin DOMAIN library
             THEN SyncResp("download", "not_found", 0)
             ELSE IF file_size(library[row.location]) # row.filesize
             THEN SyncResp("download", "server_error", 0)
             ELSE [SyncResp("download", "ok", 0) EXCEPT !.exists = TRUE]

GateTokens == {"", "t1"}
GateKey(fileId, itemId) == <<"", fileId, itemId>>

\* POST /login of alice; makeToken() gives t1
GateLogin ==
    /\ nOps < MaxGateOps
    /\ g_login("alice", "d1", "t1")
    /\ UNCHANGED uploadVars

GatePush ==
    /\ nOps < MaxGateOps
    /\ \E token \in GateTokens :
          /\ checkedFree(token)
          /\ IF validUsername(token) = ""
             THEN Denied("push", "bookmark", GateKey(KnownFileIds[1], 1))
             ELSE /\ Push(validUsername(token), "bookmark", KnownFileIds[1], 1, "p1", 0, TRUE)
                  /\ UNCHANGED uploadVars

GateDelete ==
    /\ nOps < MaxGateOps
    /\ \E token \in GateTokens :
          /\ checkedFree(token)
          /\ IF validUsername(token) = ""
             THEN Denied("delete", "bookmark", GateKey(KnownFileIds[1], 1))
             ELSE /\ Delete(validUsername(token), "bookmark", KnownFileIds[1], 1)
                  /\ UNCHANGED uploadVars

GateProbe ==
    /\ nOps < MaxGateOps
    /\ \E token \in GateTokens :
          /\ checkedFree(token)
          /\ IF validUsername(token) = ""
             THEN Denied("probe", "bookmark", GateKey(KnownFileIds[1], 1))
             ELSE Answered(ProbeResult(validUsername(token), "bookmark", KnownFileIds[1], 1),
                           "bookmark", GateKey(KnownFileIds[1], 1))

GatePullDelta ==
    /\ nOps < MaxGateOps
    /\ \E token \in GateTokens :
          /\ checkedFree(token)
          /\ IF validUsername(token) = ""
             THEN Denied("getSince", "bookmark", GateKey("", 0))
             ELSE LET r == GetSince(validUsername(token), "bookmark", 0, 1)
                  IN  Answered([SyncResp("getSince", r.code, r.nextSince)
                                   EXCEPT !.exists = r.rows # << >>],
                               "bookmark", GateKey("", 0))

GateResolveByHash ==
    /\ nOps < MaxGateOps
    /\ \E token \in GateTokens :
          /\ checkedFree(token)
          /\ IF validUsername(token) = ""
             THEN Denied("resolve", "", GateKey("", 0))
             ELSE Answered(ResolveResult("h1", 1), "", GateKey("", 0))

\* an upload of bytes the store already has: answered by the dedup lookup
GateUpload ==
    /\ nOps < MaxGateOps
    /\ \E token \in GateTokens, u \in {"c1"} :
          /\ checkedFree(token)
          /\ nOps' = nOps + 1
          /\ UNCHANGED <<db, now>>
          /\ IF validUsername(token) = ""
             THEN /\ resp' = Exchange(SyncResp("upload", "unauthorised", 0), "",
                                      GateKey("", 0), "none")
                  /\ up' = [up EXCEPT ![u] = Done("unauthorised", "", ErrResp("unauthorised"))]
                  /\ UNCHANGED <<books, library, tmp, nUploads>>
             ELSE /\ UploadBegin(u, "", "h1", 1, AnyFile, "none")
                  /\ resp' = Exchange([SyncResp("upload", up'[u].resp.code, 0)
                                          EXCEPT !.exists = up'[u].resp.fileId # ""],
                                      "", GateKey("", 0), "none")

GatePullOne ==
    /\ nOps < MaxGateOps
    /\ \E token \in GateTokens :
          /\ checkedManager(token)
          /\ IF validUsername(token) = ""
             THEN Denied("get", "bookmark", GateKey(KnownFileIds[1], 1))
             ELSE Answered(GetResult(validUsername(token), "bookmark", KnownFileIds[1], 1),
                           "bookmark", GateKey(KnownFileIds[1], 1))

GateDownload ==
    /\ nOps < MaxGateOps
    /\ \E token \in GateTokens :
          /\ checkedManager(token)
          /\ IF validUsername(token) = ""
             THEN Denied("download", "", GateKey(KnownFileIds[1], 0))
             ELSE Answered(DownloadResult(KnownFileIds[1]), "", GateKey(KnownFileIds[1], 0))

GateClock ==
    /\ now < MaxClock
    /\ now' = now + 1
    /\ UNCHANGED <<db, nOps, resp, sessionVars, uploadVars>>

GateNext ==
    \/ GateLogin /\ UNCHANGED <<feed, threadVars>>
    \/ GatePush /\ UNCHANGED <<feed, threadVars>>
    \/ GateDelete /\ UNCHANGED <<feed, threadVars>>
    \/ GateProbe /\ UNCHANGED <<feed, threadVars>>
    \/ GatePullOne /\ UNCHANGED <<feed, threadVars>>
    \/ GatePullDelta /\ UNCHANGED <<feed, threadVars>>
    \/ GateResolveByHash /\ UNCHANGED <<feed, threadVars>>
    \/ GateUpload /\ UNCHANGED <<feed, threadVars>>
    \/ GateDownload /\ UNCHANGED <<feed, threadVars>>
    \/ GateClock /\ UNCHANGED <<feed, threadVars>>

SpecGate == SyncInit /\ [][GateNext]_vars

(***************************************************************************)
(* Uploads of one client together with the sync requests of an owner on    *)
(* the books that exist by then.                                           *)
(***************************************************************************)
AssetIds == {r.file_id : r \in books}

AssetUpload == UploadRequest("c1")

AssetMove == \E fault \in MoveFaults : UploadMove("c1", fault)

AssetInsert == UploadInsert("c1") \/ UploadRaceLookup("c1")

AssetPush ==
    /\ nOps < MaxAssetOps
    /\ \E fileId \in AssetIds : Push("alice", "books", fileId, 0, "p1", 0, TRUE)

AssetDelete ==
    /\ nOps < MaxAssetOps
    /\ \E fileId \in AssetIds : Delete("alice", "books", fileId, 0)

AssetRead ==
    /\ nOps < MaxAssetOps
    /\ \E fileId \in AssetIds :
          Answered(DownloadResult(fileId), "", GateKey(fileId, 0))

AssetNext ==
    \/ AssetUpload /\ UNCHANGED <<syncVars, feed, sessionVars, threadVars>>
    \/ AssetMove /\ UNCHANGED <<syncVars, feed, sessionVars, threadVars>>
    \/ AssetInsert /\ UNCHANGED <<syncVars, feed, sessionVars, threadVars>>
    \/ AssetPush /\ UNCHANGED <<uploadVars, feed, sessionVars, threadVars>>
    \/ AssetDelete /\ UNCHANGED <<uploadVars, feed, sessionVars, threadVars>>
    \/ AssetRead /\ UNCHANGED <<feed, sessionVars, threadVars>>

SpecAssets == UploadInit /\ [][AssetNext]_vars

(***************************************************************************)
(* POST /update on two request threads. The handler reads the row's        *)
(* RowState with one statement and writes the row with another; it opens   *)
(* no transaction and takes no lock, so the statements of two requests can *)
(* interleave whenever the framework runs handlers on more than one        *)
(* thread.                                                                 *)
(***************************************************************************)
RaceOwner == "alice"
RaceTables == {"books", "bookmark"}
RaceItemId == 1

\* what a request thread holds between its SELECT and its INSERT: the row it
\* named, what the client sent, the serverTs it read (serverTs) and, once it
\* has written, the serverTs the row had when the write was applied (overwrote)
PushFrame(pc, table, key, payload, clientTs, serverTs) ==
    [pc |-> pc, table |-> table, key |-> key, payload |-> payload,
     clientTs |-> clientTs, serverTs |-> serverTs, overwrote |-> 0, tnow |-> 0]

\* auto st = db.select_...(); serverTs; if (!force && ...) return conflict(serverTs);
RacePushSelect(w, table, payload, clientTs) ==
    /\ At(w, "idle")
    /\ nOps < MaxRaceOps
    /\ bookExists(KnownFileIds[1])
    /\ nOps' = nOps + 1
    /\ LET t == StorageOf(table)
           key == KeyOf(table, RaceOwner, KnownFileIds[1], RaceItemId)
           st == IF table = "books"
                 THEN select_userBooks_byUserAndFileId(RaceOwner, KnownFileIds[1])
                 ELSE select_byUserFileAndItemId(t, RaceOwner, KnownFileIds[1], RaceItemId)
           serverTs == serverTsOf(st)
       IN  IF isStale(FALSE, serverTs, clientTs)
           THEN /\ resp' = Exchange(SyncResp("push", "conflict", serverTs),
                                    table, key, PriorOf(st))
                /\ thr' = thr
           ELSE /\ resp' = resp
                /\ thr' = [thr EXCEPT
                             ![w] = PushFrame("selected", table, key, payload,
                                              clientTs, serverTs)]
    /\ UNCHANGED <<db, now>>

\* const long long tnow = nowMs(); db.insertUser...(..., true, tnow);
RacePushInsert(w) ==
    /\ At(w, "selected")
    /\ LET t == StorageOf(thr[w].table)
           tnow == nowMs(thr[w].clientTs)
       IN  /\ db' = [db EXCEPT ![t] = upsertRow(t, thr[w].key, thr[w].payload, TRUE, tnow)]
           /\ thr' = [thr EXCEPT
                        ![w].pc = "inserted",
                        ![w].tnow = tnow,
                        ![w].overwrote = serverTsOf(fetchRowState(t, thr[w].key))]
    /\ UNCHANGED <<now, nOps, resp>>

\* return ok(tnow);
RacePushReturn(w) ==
    /\ At(w, "inserted")
    /\ resp' = Exchange(SyncResp("push", "ok", thr[w].tnow), thr[w].table, thr[w].key,
                        "none")
    /\ thr' = [thr EXCEPT ![w] = IdleWorker]
    /\ UNCHANGED <<db, now, nOps>>

RaceDelete ==
    /\ nOps < MaxRaceOps
    /\ \E table \in RaceTables : Delete(RaceOwner, table, KnownFileIds[1], RaceItemId)
    /\ UNCHANGED thr

RaceNext ==
    \/ /\ \E w \in Workers, table \in RaceTables, payload \in Payloads,
            clientTs \in ClientTimes : RacePushSelect(w, table, payload, clientTs)
       /\ UNCHANGED <<uploadVars, feed, sessionVars, mu>>
    \/ (\E w \in Workers : RacePushInsert(w)) /\ UNCHANGED <<uploadVars, feed, sessionVars, mu>>
    \/ (\E w \in Workers : RacePushReturn(w)) /\ UNCHANGED <<uploadVars, feed, sessionVars, mu>>
    \/ RaceDelete /\ UNCHANGED <<uploadVars, feed, sessionVars, mu>>
    \/ Tick /\ UNCHANGED <<uploadVars, feed, sessionVars, threadVars>>

SpecRace == SyncInit /\ [][RaceNext]_vars

(***************************************************************************)
(* GET /book/{fileId} while books are uploaded and while files of the      *)
(* library are lost or cut short behind the server's back, which is what   *)
(* the handler's checks before streaming are for.                          *)
(***************************************************************************)
DownloadIds == {r.file_id : r \in books} \cup {UnknownFileId}

\* a file of the library is removed by something other than the server
LibraryLoss ==
    /\ \E id \in DOMAIN library : library' = Remove(library, id)
    /\ UNCHANGED <<books, tmp, up, nUploads, syncVars>>

\* a file of the library is cut short by something other than the server
LibraryDamage ==
    /\ \E id \in DOMAIN library :
          /\ library[id] # Partial
          /\ library' = Put(library, id, Partial)
    /\ UNCHANGED <<books, tmp, up, nUploads, syncVars>>

DownloadRead ==
    /\ nOps < MaxDownloadOps
    /\ \E fileId \in DownloadIds :
          Answered(DownloadResult(fileId), "", GateKey(fileId, 0))

DownloadNext ==
    \/ AssetUpload /\ UNCHANGED <<syncVars, feed, sessionVars, threadVars>>
    \/ AssetMove /\ UNCHANGED <<syncVars, feed, sessionVars, threadVars>>
    \/ AssetInsert /\ UNCHANGED <<syncVars, feed, sessionVars, threadVars>>
    \/ LibraryLoss /\ UNCHANGED <<feed, sessionVars, threadVars>>
    \/ LibraryDamage /\ UNCHANGED <<feed, sessionVars, threadVars>>
    \/ DownloadRead /\ UNCHANGED <<feed, sessionVars, threadVars>>

SpecDownload == UploadInit /\ [][DownloadNext]_vars

(***************************************************************************)
(* POST /getSince over the records of two books, so that rows of one       *)
(* timestamp differ in file_id as well as in id.                           *)
(***************************************************************************)
PagePush ==
    /\ feed.phase = "writing"
    /\ nOps < MaxPageOps
    /\ \E table \in FeedTables, i \in DOMAIN FrameFileIds :
           Push("alice", table, FrameFileIds[i], IF table = "books" THEN 0 ELSE 1,
                "p1", 0, TRUE)

PageDelete ==
    /\ feed.phase = "writing"
    /\ nOps < MaxPageOps
    /\ \E i \in DOMAIN FrameFileIds : Delete("alice", "bookmark", FrameFileIds[i], 1)

PageStart ==
    /\ feed.phase = "writing"
    /\ \E table \in FeedTables, since \in 0..MaxNow, limit \in 1..MaxLimit :
           ClientStart("alice", table, since, limit)

PageNext ==
    \/ PagePush /\ UNCHANGED <<uploadVars, feed, sessionVars, threadVars>>
    \/ PageDelete /\ UNCHANGED <<uploadVars, feed, sessionVars, threadVars>>
    \/ FeedTick /\ UNCHANGED <<uploadVars, feed, sessionVars, threadVars>>
    \/ PageStart /\ UNCHANGED <<uploadVars, sessionVars, threadVars>>
    \/ ClientPage /\ UNCHANGED <<uploadVars, sessionVars, threadVars>>

SpecPages == FrameInit /\ [][PageNext]_vars

(***************************************************************************)
(* POST /delete of a book that stops between its statements.  Every        *)
(* statement commits on its own; a fault in a later statement is caught    *)
(* and answered server_error, and what was written before it stays.        *)
(***************************************************************************)
\* softDeleteUserBook has run; softDeleteUserBookmarkAll throws or is never reached
DeleteBookInterrupted(username, fileId) ==
    /\ nOps < MaxPartialOps
    /\ LET key == KeyOf("books", username, fileId, 0)
           st == select_userBooks_byUserAndFileId(username, fileId)
           tnow == now
       IN  /\ ~rowMissing(st) /\ ~alreadyTombstoned(st)
           /\ db' = [db EXCEPT !["user_books"] = softDeleteRow("user_books", key, tnow)]
           /\ resp' = Exchange(SyncResp("delete", "server_error", 0), "books", key,
                               PriorOf(st))
    /\ nOps' = nOps + 1
    /\ now' = now

PartialPush ==
    /\ nOps < MaxPartialOps
    /\ \E table \in CascadeTables :
           Push("alice", table, KnownFileIds[1], IF table = "books" THEN 0 ELSE 1,
                "p1", 0, TRUE)

PartialDelete ==
    /\ nOps < MaxPartialOps
    /\ Delete("alice", "books", KnownFileIds[1], 0)

PartialNext ==
    \/ PartialPush /\ UNCHANGED <<uploadVars, feed, sessionVars, threadVars>>
    \/ DeleteBookInterrupted("alice", KnownFileIds[1])
          /\ UNCHANGED <<uploadVars, feed, sessionVars, threadVars>>
    \/ PartialDelete /\ UNCHANGED <<uploadVars, feed, sessionVars, threadVars>>
    \/ Tick /\ UNCHANGED <<uploadVars, feed, sessionVars, threadVars>>

SpecPartial == SyncInit /\ [][PartialNext]_vars

(***************************************************************************)
(* The five sync verbs used by two owners on the same book and item id.    *)
(***************************************************************************)
OwnerTables == {"books", "bookmark"}
OwnerItem(table) == IF table = "books" THEN 0 ELSE 1

OwnerPush ==
    /\ feed.phase = "writing"
    /\ nOps < MaxOwnerOps
    /\ \E username \in FrameOwners, table \in OwnerTables, force \in BOOLEAN :
           Push(username, table, FrameFileIds[1], OwnerItem(table), "p1", 0, force)

OwnerDelete ==
    /\ feed.phase = "writing"
    /\ nOps < MaxOwnerOps
    /\ \E username \in FrameOwners, table \in OwnerTables :
           Delete(username, table, FrameFileIds[1], OwnerItem(table))

\* POST /check
OwnerProbe ==
    /\ feed.phase = "writing"
    /\ nOps < MaxOwnerOps
    /\ \E username \in FrameOwners, table \in OwnerTables :
           Answered(ProbeResult(username, table, FrameFileIds[1], OwnerItem(table)),
                    table, KeyOf(table, username, FrameFileIds[1], OwnerItem(table)))

\* POST /get with an id
OwnerPullOne ==
    /\ feed.phase = "writing"
    /\ nOps < MaxOwnerOps
    /\ \E username \in FrameOwners, table \in OwnerTables :
           Answered(GetResult(username, table, FrameFileIds[1], OwnerItem(table)),
                    table, KeyOf(table, username, FrameFileIds[1], OwnerItem(table)))

\* POST /getSince, page after page
OwnerPullDelta ==
    /\ feed.phase = "writing"
    /\ \E username \in FrameOwners, table \in OwnerTables, limit \in 1..MaxLimit :
           ClientStart(username, table, 0, limit)

OwnerNext ==
    \/ OwnerPush /\ UNCHANGED <<uploadVars, feed, sessionVars, threadVars>>
    \/ OwnerDelete /\ UNCHANGED <<uploadVars, feed, sessionVars, threadVars>>
    \/ OwnerProbe /\ UNCHANGED <<feed, sessionVars, threadVars>>
    \/ OwnerPullOne /\ UNCHANGED <<feed, sessionVars, threadVars>>
    \/ OwnerPullDelta /\ UNCHANGED <<uploadVars, sessionVars, threadVars>>
    \/ ClientPage /\ UNCHANGED <<uploadVars, sessionVars, threadVars>>
    \/ FeedTick /\ UNCHANGED <<uploadVars, feed, sessionVars, threadVars>>

SpecOwners == FrameInit /\ [][OwnerNext]_vars

(***************************************************************************)
(* Claims about the content store.                                         *)
(***************************************************************************)
Finished(u) == up[u].pc = "done"

\* the request did the pre-upload lookup, found nothing, verified its bytes, moved
\* them into the library and tried to insert its asset row
ReachedInsert(u) ==
    /\ Finished(u)
    /\ up[u].ret \in {"inserted", "raceLost", "insertError"}
    /\ unknownId(up[u].fileId)

SameContent(u, v) ==
    up[u].shaHex = up[v].shaHex /\ up[u].sizeClaim = up[v].sizeClaim

\* C2: in every reachable state the asset table holds at most one row for each
\* (contentHash, size) pair, whatever Upload requests ran and however they interleaved.
C2_UniqueHashSize ==
    \A r1 \in books, r2 \in books :
        (r1.sha256 = r2.sha256 /\ r1.filesize = r2.filesize) => r1 = r2

\* two uploads of one content raced, one of them lost the insert, the table holds one row
C2_Witness ==
    \E u \in Uploaders, v \in Uploaders :
        /\ up[u].ret = "raceLost" /\ up[v].ret = "inserted" /\ SameContent(u, v)
        /\ Cardinality({r \in books : r.sha256 = up[u].shaHex
                                       /\ r.filesize = up[u].sizeClaim}) = 1

\* C3: when two Uploads of the same new content both pass the pre-upload lookup before
\* either inserts, both answer ok with the same fileId, the fileId of the one committed
\* row, and neither answers with an error.
C3_RaceBothOkSameId ==
    \A u \in Uploaders, v \in Uploaders :
        (u # v /\ ReachedInsert(u) /\ ReachedInsert(v) /\ SameContent(u, v))
        => /\ up[u].resp.code = "ok" /\ up[v].resp.code = "ok"
           /\ up[u].resp.fileId = up[v].resp.fileId
           /\ \E r \in books : /\ r.file_id = up[u].resp.fileId
                               /\ r.sha256 = up[u].shaHex /\ r.filesize = up[u].sizeClaim

\* both requests passed the lookup, one inserted, the other lost and got the winner's id
C3_Witness ==
    \E u \in Uploaders, v \in Uploaders :
        /\ u # v /\ ReachedInsert(u) /\ ReachedInsert(v) /\ SameContent(u, v)
        /\ up[u].ret = "inserted" /\ up[v].ret = "raceLost"
        /\ up[v].resp.fileId = up[u].newId /\ up[v].newId # up[u].newId

\* C4: after an Upload lost the (hash, size) race and returned the winner's fileId, the
\* bytes it uploaded are discarded: no file for the loser's own id is in the library and
\* no temp file of it remains.
C4_LoserBytesDiscarded ==
    \A u \in Uploaders :
        (Finished(u) /\ up[u].ret = "raceLost" /\ up[u].resp.fileId # up[u].newId)
        => /\ up[u].newId \notin DOMAIN library
           /\ up[u].tmpPath \notin DOMAIN tmp

\* C5: after an Upload of content (H, S) returned fileId F, every later Upload of the
\* same (H, S) with fileId omitted or "0" returns F and leaves the asset table and the
\* library unchanged.
C5_DedupIdempotent ==
    [][\A v \in Uploaders :
          (Finished(v) /\ up[v].resp.code = "ok") =>
              \A u \in Uploaders, fileId \in {"", "0"}, fault \in SaveFaults :
              \A file \in SentFiles(fault) :
                  UploadBegin(u, fileId, up[v].resp.sha256, up[v].resp.size, file, fault)
                  => /\ up'[u].resp = up[v].resp
                     /\ books' = books
                     /\ library' = library]_vars

\* a second upload of a content that was inserted before was answered by the dedup lookup
C5_Witness ==
    \E u \in Uploaders, v \in Uploaders :
        /\ u # v /\ up[v].ret = "inserted" /\ up[u].ret = "dedup"
        /\ up[u].resp = up[v].resp

\* C6: an Upload whose bytes differ in size or in hash from what it claimed is answered
\* checksum_mismatch and persists nothing: no asset row, no library file, no temp file.
C6_MismatchIsChecksumMismatch ==
    [][\A u \in Uploaders :
          ( /\ UploadMove(u, "none")
            /\ \/ file_size(tmp[up[u].tmpPath]) # up[u].sizeClaim
               \/ sha256_file_hex(tmp[up[u].tmpPath]) # up[u].shaHex )
          => /\ up'[u].resp.code = "checksum_mismatch"
             /\ books' = books
             /\ library' = library
             /\ up[u].tmpPath \notin DOMAIN tmp']_vars

\* what the code does on a mismatch: nothing is persisted, and only a wrong digest is
\* named checksum_mismatch
C6_MismatchPersistsNothing ==
    [][\A u \in Uploaders :
          ( /\ UploadMove(u, "none")
            /\ \/ file_size(tmp[up[u].tmpPath]) # up[u].sizeClaim
               \/ sha256_file_hex(tmp[up[u].tmpPath]) # up[u].shaHex )
          => /\ up'[u].resp.code \in {"checksum_mismatch", "server_error"}
             /\ books' = books
             /\ library' = library
             /\ up[u].tmpPath \notin DOMAIN tmp']_vars

(***************************************************************************)
(* Claims about the sync store.                                            *)
(***************************************************************************)
\* the table the records of an entity kind are kept in (CREATE TABLE user_*)
KindStorage(table) == IF table = "note" THEN "user_notes" ELSE StorageOf(table)

KnownIds == {KnownFileIds[i] : i \in DOMAIN KnownFileIds}

\* the step is a POST /update that named resp'.table and resp'.key
Pushed == resp'.op = "push" /\ nOps' = nOps + 1

\* C7: for every entity kind and key, a Push with force = false is answered
\* conflict(serverTs) exactly when a row of the key exists whose serverTs
\* (deletedAt when tombstoned, else updatedAt) is greater than the client
\* timestamp, and is applied (ok, payload stored) in every other case.
C7_ConflictIffStale ==
    [][\A payload \in Payloads, clientTs \in ClientTimes :
          ( /\ Pushed
            /\ bookExists(resp'.key[2])
            /\ Push(resp'.key[1], resp'.table, resp'.key[2], resp'.key[3],
                    payload, clientTs, FALSE) ) =>
             LET t == KindStorage(resp'.table)
                 st == fetchRowState(t, resp'.key)
             IN  IF (st.exists \/ st.deleted) /\ serverTsOf(st) > clientTs
                 THEN resp'.code = "conflict" /\ resp'.ts = serverTsOf(st)
                 ELSE /\ resp'.code = "ok"
                      /\ resp'.key \in DOMAIN db'[t]
                      /\ db'[t][resp'.key].payload = payload]_vars

\* C7 for the kinds POST /update has a branch for: books, bookmark and highlight
C7_ConflictIffStaleHandledKinds ==
    [][\A payload \in Payloads, clientTs \in ClientTimes :
          ( /\ Pushed
            /\ bookExists(resp'.key[2])
            /\ resp'.table \in {"books", "bookmark", "highlight"}
            /\ Push(resp'.key[1], resp'.table, resp'.key[2], resp'.key[3],
                    payload, clientTs, FALSE) ) =>
             LET t == StorageOf(resp'.table)
                 st == fetchRowState(t, resp'.key)
             IN  IF (st.exists \/ st.deleted) /\ serverTsOf(st) > clientTs
                 THEN resp'.code = "conflict" /\ resp'.ts = serverTsOf(st)
                 ELSE /\ resp'.code = "ok"
                      /\ resp'.key \in DOMAIN db'[t]
                      /\ db'[t][resp'.key].payload = payload]_vars

\* a Push of a note for an uploaded book has been answered invalid_request
C7_NoteTurnedDown ==
    /\ resp.op = "push"
    /\ resp.table = "note"
    /\ resp.code = "invalid_request"
    /\ bookExists(resp.key[2])

\* C8: a Push answered with conflict leaves every stored record as it was:
\* payload, updatedAt and deletedAt of the key and of all other keys, in every table.
C8_ConflictChangesNothing ==
    [][(Pushed /\ resp'.code = "conflict") =>
          /\ db' = db
          /\ books' = books
          /\ library' = library]_vars

\* a Push was answered conflict(serverTs) over a row written with another payload
C8_Witness ==
    /\ resp.op = "push"
    /\ resp.code = "conflict"
    /\ resp.prior \in {"live", "tombstoned"}
    /\ resp.ts = serverTsOf(fetchRowState(StorageOf(resp.table), resp.key))
    /\ db[StorageOf(resp.table)][resp.key].payload = "p2"

\* C9: whenever a Push is applied to a key whose row is tombstoned, the row is
\* live afterwards (deleted_at NULL) and Probe of the key reports exists = true,
\* deleted = false.
C9_Resurrection ==
    [][\A username \in Owners, table \in Tables, fileId \in KnownIds, itemId \in 0..MaxItem :
          ( /\ Pushed
            /\ resp'.code = "ok"
            /\ resp'.table = table
            /\ resp'.key = <<username, fileId, itemId>>
            /\ fetchRowState(KindStorage(table), resp'.key).deleted )
          => /\ db'[KindStorage(table)][resp'.key].deleted_at = NULL
             /\ ProbeResult(username, table, fileId, itemId)'.exists
             /\ ~ProbeResult(username, table, fileId, itemId)'.deleted]_vars

\* a Push has just been applied to a tombstoned row, which is live now
C9_Witness ==
    /\ resp.op = "push"
    /\ resp.code = "ok"
    /\ resp.prior = "tombstoned"
    /\ fetchRowState(StorageOf(resp.table), resp.key).exists

\* C10: every applied Push stores updated_at = the clock value of the call and
\* answers with that value, whatever timestamp the client sent.
C10_StoresServerNow ==
    [][(Pushed /\ resp'.code = "ok")
       => /\ resp'.ts = now
          /\ db'[KindStorage(resp'.table)][resp'.key].updated_at = now]_vars

\* a Push was applied after the clock had moved on, over a row written earlier
C10_Witness ==
    /\ resp.op = "push"
    /\ resp.code = "ok"
    /\ resp.prior = "live"
    /\ now > 1
    /\ resp.ts = now
    /\ db[StorageOf(resp.table)][resp.key].updated_at = now

(***************************************************************************)
(* Claims about the change feed.                                           *)
(***************************************************************************)
FeedRows == IF StorageOf(feed.table) = "" THEN {}
            ELSE {k \in DOMAIN db[StorageOf(feed.table)] :
                     /\ k[1] = feed.owner
                     /\ tsOf(db[StorageOf(feed.table)][k]) >= feed.since0}

\* C1: a client that starts at since = S and calls changesSince with the returned
\* nextSince until a page brings no new row has received every row whose
\* coalesce(deletedAt, updatedAt) >= S, also when more than limit rows share a
\* timestamp.
C1_ChangesSinceComplete ==
    feed.phase = "done" => FeedRows \subseteq feed.seen

\* C1 when no timestamp is shared by more rows than a page holds
C1_CompleteWhenTiesFit ==
    ( /\ feed.phase = "done"
      /\ \A k \in FeedRows :
            Cardinality({o \in FeedRows :
                tsOf(db[StorageOf(feed.table)][o]) = tsOf(db[StorageOf(feed.table)][k])})
              <= clampLimit(feed.limit) )
    => FeedRows \subseteq feed.seen

\* a client has paged to the end over rows that share a timestamp
C1_PagedOverTies ==
    /\ feed.phase = "done"
    /\ \E k \in FeedRows, o \in FeedRows :
          /\ k # o
          /\ tsOf(db[StorageOf(feed.table)][k]) = tsOf(db[StorageOf(feed.table)][o])

(***************************************************************************)
(* Claims about single requests and scenarios of the sync store.           *)
(***************************************************************************)
\* the payload a Push step sent, as far as the step shows it: the payload of the
\* row it names
PushedPayload ==
    IF StorageOf(resp'.table) # "" /\ resp'.key \in DOMAIN db'[StorageOf(resp'.table)]
    THEN db'[StorageOf(resp'.table)][resp'.key].payload ELSE "p1"

\* the step is a Push of a bookmark of an uploaded book onto a key with no row
FirstBookmarkPush(clientTs) ==
    /\ Pushed
    /\ resp'.table = "bookmark"
    /\ bookExists(resp'.key[2])
    /\ resp'.key \notin DOMAIN db["user_bookmarks"]
    /\ Push(resp'.key[1], "bookmark", resp'.key[2], resp'.key[3],
            PushedPayload, clientTs, FALSE)

\* the step is a Push of the bookmark key that the exchange before created
SecondBookmarkPush(clientTs) ==
    /\ resp.op = "push" /\ resp.code = "ok" /\ resp.prior = "absent"
    /\ resp.table = "bookmark"
    /\ Pushed
    /\ resp'.table = "bookmark"
    /\ resp'.key = resp.key
    /\ Push(resp'.key[1], "bookmark", resp'.key[2], resp'.key[3],
            PushedPayload, clientTs, FALSE)

\* C11 as stated: a Push of a bookmark with client updatedAt = c onto a key with
\* no row succeeds and stores updatedAt = c, and a following Push of the key with
\* a smaller updatedAt and force = false is rejected with conflict(c).
C11_Scenario3StoresClientTs ==
    [][\A clientTs \in ClientTimes :
          /\ FirstBookmarkPush(clientTs) =>
                /\ resp'.code = "ok"
                /\ db'["user_bookmarks"][resp'.key].updated_at = clientTs
          /\ (SecondBookmarkPush(clientTs)
                /\ clientTs < db["user_bookmarks"][resp.key].updated_at) =>
                /\ resp'.code = "conflict"
                /\ resp'.ts = db["user_bookmarks"][resp.key].updated_at]_vars

\* C11 amended: the first Push succeeds and stores (and returns) the server's
\* clock value T, whatever updatedAt the client sent; a following Push of the key
\* with force = false is rejected with conflict(T) exactly when its updatedAt < T.
C11_Scenario3StoresNow ==
    [][\A clientTs \in ClientTimes :
          /\ FirstBookmarkPush(clientTs) =>
                /\ resp'.code = "ok"
                /\ resp'.ts = now
                /\ db'["user_bookmarks"][resp'.key].updated_at = now
          /\ SecondBookmarkPush(clientTs) =>
                IF clientTs < resp.ts
                THEN resp'.code = "conflict" /\ resp'.ts = resp.ts /\ db' = db
                ELSE resp'.code = "ok"]_vars

\* both Pushes of the scenario have happened: the only row of the store is the
\* bookmark the first created, and the second was answered conflict
C11_Witness ==
    /\ nOps = 2
    /\ resp.op = "push" /\ resp.code = "conflict" /\ resp.table = "bookmark"
    /\ DOMAIN db["user_bookmarks"] = {resp.key}
    /\ db["user_books"] = << >> /\ db["user_highlights"] = << >>
    /\ resp.ts = db["user_bookmarks"][resp.key].updated_at

Deleted == resp'.op = "delete" /\ nOps' = nOps + 1

\* C13: a Delete of a key that is already tombstoned returns the stored
\* deletedAt and changes no row; two consecutive Deletes of one key return the
\* same deletedAt, however far the clock has moved between them.
C13_DeleteIdempotent ==
    [][/\ ( /\ Deleted
            /\ StorageOf(resp'.table) # ""
            /\ fetchRowState(StorageOf(resp'.table), resp'.key).deleted )
          => /\ resp'.code = "ok"
             /\ resp'.ts = db[StorageOf(resp'.table)][resp'.key].deleted_at
             /\ db' = db
       /\ ( /\ resp.op = "delete" /\ resp.code = "ok"
            /\ Deleted
            /\ resp'.table = resp.table /\ resp'.key = resp.key )
          => /\ resp'.code = "ok"
             /\ resp'.ts = resp.ts
             /\ db' = db]_vars

\* a Delete was repeated after the clock had moved past the tombstone's time
C13_Witness ==
    /\ resp.op = "delete" /\ resp.code = "ok" /\ resp.prior = "tombstoned"
    /\ resp.ts < now
    /\ db[StorageOf(resp.table)][resp.key].deleted_at = resp.ts

(***************************************************************************)
(* Claims about the cascade of a book Delete.                              *)
(***************************************************************************)
\* the rows of table t under the owner and book of key
Under(t, key, rows) == {k \in DOMAIN rows[t] : k[1] = key[1] /\ k[2] = key[2]}

\* C14: a Delete of a live book record of an owner that has live bookmarks
\* under that fileId tombstones the book and every one of those bookmarks, and
\* each bookmark's deletedAt equals the deletedAt returned for the book.
C14_BookDeleteCascadesToBookmarks ==
    [][( /\ Deleted
         /\ resp'.table = "books"
         /\ fetchRowState("user_books", resp'.key).exists )
       => /\ resp'.code = "ok"
          /\ db'["user_books"][resp'.key].deleted_at = resp'.ts
          /\ \A k \in Under("user_bookmarks", resp'.key, db) :
                db["user_bookmarks"][k].deleted_at = NULL
                   => db'["user_bookmarks"][k].deleted_at = resp'.ts]_vars

\* four calls: the book and two bookmarks were written, then the book was
\* deleted, and all three rows carry the returned deletedAt
C14_Witness ==
    /\ nOps = 4
    /\ resp.op = "delete" /\ resp.table = "books" /\ resp.code = "ok"
    /\ resp.prior = "live"
    /\ db["user_books"][resp.key].deleted_at = resp.ts
    /\ Cardinality(Under("user_bookmarks", resp.key, db)) = 2
    /\ \A k \in Under("user_bookmarks", resp.key, db) :
          db["user_bookmarks"][k].deleted_at = resp.ts

\* C15: whenever a Delete on the book entity of (owner, fileId) returns
\* {deletedAt}, every bookmark, every highlight and every note stored under that
\* (owner, fileId) is tombstoned in the resulting state.
C15_BookDeleteTombstonesAll ==
    [][( /\ Deleted
         /\ resp'.table = "books"
         /\ resp'.code = "ok" )
       => \A t \in {"user_bookmarks", "user_highlights", "user_notes"} :
          \A k \in Under(t, resp'.key, db') : db'[t][k].deleted_at # NULL]_vars

\* C15 for the rows the handler's cascade reaches: after a Delete of a live book
\* every bookmark and every highlight under it is tombstoned
C15_LiveBookDeleteTombstonesMarks ==
    [][( /\ Deleted
         /\ resp'.table = "books"
         /\ resp'.code = "ok"
         /\ resp'.prior = "live" )
       => \A t \in {"user_bookmarks", "user_highlights"} :
          \A k \in Under(t, resp'.key, db') : db'[t][k].deleted_at # NULL]_vars

\* a Delete of a live book has returned its deletedAt and a note under the book
\* is still live
C15_NoteLeftLive ==
    /\ resp.op = "delete" /\ resp.table = "books" /\ resp.code = "ok"
    /\ resp.prior = "live"
    /\ \E k \in Under("user_notes", resp.key, db) : db["user_notes"][k].deleted_at = NULL

\* a repeated Delete of a tombstoned book has returned its deletedAt and a
\* bookmark written in between is still live
C15_BookmarkLeftLive ==
    /\ resp.op = "delete" /\ resp.table = "books" /\ resp.code = "ok"
    /\ resp.prior = "tombstoned"
    /\ \E k \in Under("user_bookmarks", resp.key, db) :
          db["user_bookmarks"][k].deleted_at = NULL

\* C16: a Delete of a book by one owner leaves unchanged the BookAsset row and
\* its stored bytes, every record of every other owner (progress, bookmarks,
\* highlights, notes), and every record of the same owner under other fileIds.
C16_BookDeleteFrame ==
    [][(Deleted /\ resp'.table = "books")
       => /\ books' = books
          /\ library' = library
          /\ \A t \in DOMAIN db :
                /\ DOMAIN db'[t] = DOMAIN db[t]
                /\ \A k \in DOMAIN db[t] :
                      (k[1] # resp'.key[1] \/ k[2] # resp'.key[2])
                         => db'[t][k] = db[t][k]]_vars

\* a live book was deleted while another owner has a live bookmark under the
\* same book and the owner has a live bookmark under another book
C16_Witness ==
    /\ resp.op = "delete" /\ resp.table = "books" /\ resp.code = "ok"
    /\ resp.prior = "live"
    /\ db["user_books"][resp.key].deleted_at = resp.ts
    /\ \E k \in DOMAIN db["user_bookmarks"] :
          /\ k[1] # resp.key[1] /\ k[2] = resp.key[2]
          /\ db["user_bookmarks"][k].deleted_at = NULL
    /\ \E k \in DOMAIN db["user_bookmarks"] :
          /\ k[1] = resp.key[1] /\ k[2] # resp.key[2]
          /\ db["user_bookmarks"][k].deleted_at = NULL

(***************************************************************************)
(* Claims about Delete of a missing key, paging, Probe and sessions.       *)
(***************************************************************************)

Candidates(t, username, since) ==
    {k \in DOMAIN db[t] : k[1] = username /\ tsOf(db[t][k]) >= since}

\* the timestamp of the n-th candidate in ascending order of timestamp: the
\* least timestamp that at least n candidates do not exceed
NthCandidateTs(t, cand, n) ==
    LET reach(v) == Cardinality({k \in cand : tsOf(db[t][k]) <= v}) >= n
    IN  CHOOSE v \in {tsOf(db[t][k]) : k \in cand} :
            /\ reach(v)
            /\ \A w \in {tsOf(db[t][k]) : k \in cand} : reach(w) => v <= w

\* C18: nextSince of changesSince(owner, since, limit) equals since when no
\* candidate row is found, the timestamp of the last returned row when between
\* 1 and limit candidates are found, and the timestamp of the unreturned
\* (limit+1)-th candidate when limit+1 candidates are found.
C18_NextSinceRule ==
    [][(feed.phase = "paging" /\ resp'.op = "getSince" /\ resp'.code = "ok")
       => LET t == StorageOf(feed.table)
              limit == clampLimit(feed.limit)
              cand == Candidates(t, feed.owner, feed.since)
              n == Cardinality(cand)
              rows == GetSince(feed.owner, feed.table, feed.since, feed.limit).rows
          IN  /\ n = 0 => resp'.ts = feed.since /\ rows = << >>
              /\ (1 <= n /\ n <= limit)
                    => /\ Len(rows) = n
                       /\ resp'.ts = tsOf(db[t][rows[Len(rows)]])
                       /\ resp'.ts = NthCandidateTs(t, cand, n)
              /\ n > limit
                    => /\ Len(rows) = limit
                       /\ resp'.ts = NthCandidateTs(t, cand, limit + 1)
                       /\ \A i \in DOMAIN rows : tsOf(db[t][rows[i]]) <= resp'.ts]_vars

\* a client got a full first page while a later candidate was left over: the
\* nextSince it was given is the timestamp of that unreturned row
C18_Witness ==
    /\ resp.op = "getSince" /\ resp.code = "ok"
    /\ feed.phase = "paging"
    /\ Cardinality(feed.seen) = clampLimit(feed.limit)
    /\ Cardinality(FeedRows) > clampLimit(feed.limit)
    /\ resp.ts = NthCandidateTs(StorageOf(feed.table), FeedRows, clampLimit(feed.limit) + 1)
    /\ \A k \in feed.seen : tsOf(db[StorageOf(feed.table)][k]) < resp.ts

\* a request from beyond every stored timestamp was answered with its own since
C18_EmptyPage ==
    /\ resp.op = "getSince" /\ resp.code = "ok"
    /\ feed.phase = "done" /\ feed.seen = {}
    /\ FeedRows = {}
    /\ \E k \in DOMAIN db[StorageOf(feed.table)] : k[1] = feed.owner
    /\ resp.ts = feed.since0

Resolved == auth'.op = "resolve" /\ nOps' = nOps + 1

\* C20: resolve(token) returns the owner's username if and only if the token
\* was issued and its expiresAt is strictly later than now; for an unknown
\* token, an empty token and a token with expiresAt <= now (expiresAt = now
\* included) it returns the one absent value.
C20_ResolveIffLive ==
    [][Resolved
       => LET token == auth'.token
              live == token \in DOMAIN issued /\ issued[token].expires > now
          IN  /\ live => auth'.username = issued[token].username
              /\ ~live => auth'.username = ""
              /\ auth'.username # "" => live
              /\ auth'.expires = 0]_vars

\* a token was resolved at the very instant of its expiresAt and found absent
C20_Witness ==
    /\ auth.op = "resolve" /\ auth.username = ""
    /\ auth.token \in DOMAIN issued
    /\ issued[auth.token].expires = now
    /\ auth.token \notin DOMAIN sessions

\* a token was resolved before its expiresAt and named its owner
C20_ResolvedLive ==
    /\ auth.op = "resolve" /\ auth.username # ""
    /\ auth.token \in DOMAIN issued
    /\ issued[auth.token].username = auth.username
    /\ issued[auth.token].expires = now + 1

(***************************************************************************)
(* Claims about what resolve and issue do to the session map.              *)
(***************************************************************************)

\* C21: a resolve of an expired token removes exactly that token's entry from
\* the session map and leaves every other entry unchanged; a resolve of a live
\* or unknown token leaves the map unchanged.
C21_ResolveFrame ==
    [][Resolved
       => LET token == auth'.token
              gone == IF token \in DOMAIN sessions /\ sessions[token].expires <= now
                      THEN {token} ELSE {}
          IN  /\ DOMAIN sessions' = DOMAIN sessions \ gone
              /\ \A t \in DOMAIN sessions' : sessions'[t] = sessions[t]]_vars

\* the free function answered absent for an expired token and its entry is
\* still in g_sessions
C21_ExpiredEntryKept ==
    /\ auth.op = "resolve" /\ auth.username = ""
    /\ auth.token \in DOMAIN sessions
    /\ sessions[auth.token].expires <= now

\* SessionManager::usernameIfValid erased the expired entry and kept another
C21_ExpiredEntryErased ==
    /\ auth.op = "resolve" /\ auth.username = ""
    /\ auth.token \in DOMAIN issued
    /\ issued[auth.token].expires <= now
    /\ auth.token \notin DOMAIN sessions
    /\ DOMAIN sessions # {}

Added == auth'.op = "add" /\ nOps' = nOps + 1

C23_SessionStable ==
    [][\A t \in DOMAIN sessions :
          (sessions[t].expires > now' /\ ~(Added /\ auth'.token = t))
             => /\ t \in DOMAIN sessions'
                /\ sessions'[t] = sessions[t]
                /\ (Resolved /\ auth'.token = t)
                      => auth'.username = sessions[t].username]_vars

\* a token was resolved to its owner after another token had been issued
\* later than it
C23_Witness ==
    /\ auth.op = "resolve" /\ auth.username # ""
    /\ auth.token \in DOMAIN issued
    /\ auth.username = issued[auth.token].username
    /\ \E t \in DOMAIN issued :
          /\ t # auth.token
          /\ issued[t].seq > issued[auth.token].seq
          /\ issued[t].username # auth.username

(***************************************************************************)
(* Claims about the session mutex.                                         *)
(***************************************************************************)
\* the statements that read or write sessions_: prune, insert, find, erase
InMap(w) == thr[w].pc \in {"add_prune", "add_insert", "res_find", "res_erase"}

\* C24: every read and every write of the session map (find, erase, insert,
\* prune) happens while the single session mutex is held by the thread that
\* makes it, so no two threads running issue and resolve are ever inside the
\* map at the same time.
C24_MapUnderMutex ==
    /\ \A w \in Workers : InMap(w) => mu = w
    /\ \A w1, w2 \in Workers : (InMap(w1) /\ InMap(w2)) => w1 = w2

\* one thread is about to insert while the other waits for the mutex
C24_Witness ==
    \E w1, w2 \in Workers :
        /\ thr[w1].pc = "add_insert" /\ mu = w1
        /\ thr[w2].pc = "res_lock"
        /\ thr[w2].token \in DOMAIN sessions

(***************************************************************************)
(* Claims about the token check of the handlers.                           *)
(***************************************************************************)
\* the token of the request is missing, was never issued, or has expired
BadToken(token) ==
    \/ token = ""
    \/ token \notin DOMAIN issued
    \/ issued[token].expires <= now

GateVerbs == {"probe", "get", "getSince", "push", "delete", "resolve", "upload", "download"}

\* C25: for every verb other than Authenticate (Probe, Pull-one, Pull-delta,
\* Push, Delete, Resolve-by-hash, Upload, Download), a request whose token is
\* missing, unknown or expired is answered unauthorised, carries nothing read
\* from the stores in its answer and changes no SyncStore or ContentStore state.
C25_BadTokenUnauthorised ==
    [][(Resolved /\ BadToken(auth'.token))
       => /\ resp'.op \in GateVerbs
          /\ resp'.code = "unauthorised"
          /\ resp'.ts = 0 /\ ~resp'.exists /\ ~resp'.deleted /\ resp'.prior = "none"
          /\ db' = db
          /\ books' = books /\ library' = library /\ tmp' = tmp
          /\ nUploads' = nUploads
          /\ \A u \in Uploaders :
                up'[u] = up[u] \/ up'[u] = Done("unauthorised", "", ErrResp("unauthorised"))]_vars

\* a request carrying a token that was issued and has expired was turned away
\* while the owner has a stored row
C25_Witness ==
    /\ auth.op = "resolve" /\ auth.token \in DOMAIN issued
    /\ issued[auth.token].expires <= now
    /\ resp.code = "unauthorised" /\ resp.op \in GateVerbs
    /\ \E t \in DOMAIN db : DOMAIN db[t] # {}

(***************************************************************************)
(* Claims about what the stores keep for ever.                             *)
(***************************************************************************)

\* C26: in every reachable state every synced record has a fileId for which a
\* BookAsset row exists; a Push that names a fileId with no BookAsset is
\* rejected as invalid_request and stores nothing.
C26_ReferentialIntegrity ==
    /\ [](\A t \in DOMAIN db : \A k \in DOMAIN db[t] : \E r \in books : r.file_id = k[2])
    /\ [][(Pushed /\ ~(\E r \in books : r.file_id = resp'.key[2]))
          => /\ resp'.code = "invalid_request"
             /\ db' = db]_vars

\* a Push onto a book id that no asset has was turned down while rows of a
\* real book are stored
C26_Witness ==
    /\ resp.op = "push" /\ resp.code = "invalid_request"
    /\ StorageOf(resp.table) # ""
    /\ resp.key[2] = UnknownFileId
    /\ \A r \in books : r.file_id # UnknownFileId
    /\ \E t \in DOMAIN db : DOMAIN db[t] # {}

\* C27: once a BookAsset row (fileId, contentHash, size) exists, it exists with
\* the same three values in every later state, whatever sequence of Upload,
\* Push, Delete and read requests follows.
C27_AssetsImmortal ==
    [][\A r \in books :
          \E q \in books' :
             /\ q.file_id = r.file_id
             /\ q.sha256 = r.sha256
             /\ q.filesize = r.filesize]_vars

\* an asset has outlived a Delete of its owner's book record and a later
\* upload that named its fileId
C27_Witness ==
    /\ \E r \in books :
          /\ <<"alice", r.file_id, 0>> \in DOMAIN db["user_books"]
          /\ db["user_books"][<<"alice", r.file_id, 0>>].deleted_at # NULL
          /\ up["c1"].pc = "done"
          /\ up["c1"].ret \in {"raceLost", "insertError"}
          /\ up["c1"].newId = r.file_id

\* C28: once a row exists for a key (owner, fileId[, itemId]) a row exists for
\* that key in every later state; no Push, Delete or read removes a row,
\* Delete only marks it.
C28_RowsNeverPurged ==
    [][\A t \in DOMAIN db :
          /\ DOMAIN db[t] \subseteq DOMAIN db'[t]
          /\ Deleted => \A k \in DOMAIN db[t] :
                           db'[t][k].payload = db[t][k].payload]_vars

\* a Probe found a tombstone that was written before the clock's last step
C28_Witness ==
    /\ resp.op = "probe" /\ resp.code = "ok" /\ resp.deleted
    /\ resp.ts < now
    /\ \E t \in DOMAIN db : \E k \in DOMAIN db[t] :
          db[t][k].deleted_at = resp.ts /\ db[t][k].updated_at = resp.ts

\* C29: for any interleaving of non-forced Pushes (and Deletes) on the same key,
\* no Push is applied whose client timestamp is smaller than the row's server
\* timestamp at the moment its write is applied: the read of the current row
\* and the write behave as one atomic step.
C29_WriteNeverStale ==
    [][\A w \in Workers :
          At(w, "selected") /\ thr'[w].pc = "inserted"
              => ~isStale(FALSE,
                          serverTsOf(fetchRowState(StorageOf(thr[w].table), thr[w].key)),
                          thr[w].clientTs)]_vars

\* a thread has written over a row that another request had stamped, after its
\* own read, with a server timestamp above this thread's client timestamp
C29_StaleWriteApplied ==
    \E w \in Workers :
        /\ At(w, "inserted")
        /\ thr[w].serverTs < thr[w].overwrote
        /\ thr[w].clientTs < thr[w].overwrote
        /\ db[StorageOf(thr[w].table)][thr[w].key].payload = thr[w].payload

Downloaded == resp'.op = "download" /\ nOps' = nOps + 1

\* the asset row a Download of fileId reads
AssetRow(fileId) == CHOOSE r \in books : r.file_id = fileId

FullPage ==
    /\ feed.phase = "paging" /\ resp'.op = "getSince" /\ resp'.code = "ok"
    /\ Cardinality(Candidates(StorageOf(feed.table), feed.owner, feed.since))
          > clampLimit(feed.limit)

PageRows == GetSince(feed.owner, feed.table, feed.since, feed.limit).rows

\* C32 as stated: when changesSince finds limit+1 candidate rows, the nextSince
\* it returns (the timestamp of the unreturned extra row) is less than or equal
\* to the timestamp of the last row it returned.
C32_NextSinceAtMostLast ==
    [][FullPage => resp'.ts <= tsOf(db[StorageOf(feed.table)][PageRows[Len(PageRows)]])]_vars

\* C32 as the code has it: when changesSince finds limit+1 candidate rows, the
\* nextSince it returns is the timestamp of the unreturned extra row, which is
\* greater than or equal to the timestamp of the last row it returned and is
\* the least timestamp among the candidates it did not return.
C32_NextSinceAtLeastLast ==
    [][FullPage =>
          LET t == StorageOf(feed.table)
              left == Candidates(t, feed.owner, feed.since)
                         \ {PageRows[i] : i \in DOMAIN PageRows}
          IN  /\ resp'.ts >= tsOf(db[t][PageRows[Len(PageRows)]])
              /\ \E k \in left : resp'.ts = tsOf(db[t][k])
              /\ \A k \in left : resp'.ts <= tsOf(db[t][k])]_vars

\* the first page was full and the row left over is younger than the last row
\* of the page: nextSince is above the timestamp of every row returned
C32_Witness ==
    /\ resp.op = "getSince" /\ resp.code = "ok" /\ feed.phase = "paging"
    /\ feed.since = resp.ts /\ feed.since0 < resp.ts
    /\ feed.seen # {}
    /\ \A k \in feed.seen : tsOf(db[StorageOf(feed.table)][k]) < feed.since
    /\ \E k \in DOMAIN db[StorageOf(feed.table)] \ feed.seen :
          k[1] = feed.owner /\ tsOf(db[StorageOf(feed.table)][k]) = feed.since

ChildrenOf(t, bookKey) == {k \in DOMAIN db[t] : k[1] = bookKey[1] /\ k[2] = bookKey[2]}

\* C34: if a book Delete stops after the book row is tombstoned and before its
\* bookmarks and highlights are tombstoned, repeating the same Delete brings
\* the store to the state a complete Delete would have produced, with all
\* children tombstoned.
C34_RepeatedDeleteCompletes ==
    [][( /\ resp.op = "delete" /\ resp.code = "server_error"
         /\ Deleted /\ resp'.code # "server_error"
         /\ resp'.table = "books" /\ resp'.key = resp.key )
       => \A t \in {"user_bookmarks", "user_highlights"} :
          \A k \in ChildrenOf(t, resp.key) : db'[t][k].deleted_at # NULL]_vars

\* the repeated Delete was answered ok with the tombstone's time, and a
\* bookmark or highlight written before that time is still live
C34_ChildLeftLive ==
    /\ resp.op = "delete" /\ resp.code = "ok" /\ resp.table = "books"
    /\ resp.prior = "tombstoned"
    /\ db["user_books"][resp.key].deleted_at = resp.ts
    /\ \E t \in {"user_bookmarks", "user_highlights"} :
       \E k \in ChildrenOf(t, resp.key) :
          /\ db[t][k].deleted_at = NULL
          /\ db[t][k].updated_at < resp.ts

\* the step in which request u returns with the given error code
ReturnsWith(u, code) ==
    /\ up'[u] # up[u]
    /\ up'[u].pc = "done"
    /\ up'[u].resp.code = code

\* C35: after any Upload that ends in server_error (temp save failure,
\* directory creation failure, copy failure, or an asset insert that fails for
\* a reason other than the dedup race), no file written by that Upload remains
\* in the temp area or in the library: every file in the library belongs to an
\* asset row.
C35_ServerErrorLeavesNoFile ==
    [][\A u \in Uploaders :
          ReturnsWith(u, "server_error")
             => /\ DOMAIN tmp' \subseteq DOMAIN tmp \ {up[u].tmpPath}
                /\ (up[u].newId # "" /\ up[u].newId \in DOMAIN library')
                      => \E r \in books' :
                            /\ r.location = up[u].newId
                            /\ r.sha256 = sha256_file_hex(library'[up[u].newId])
                            /\ r.filesize = file_size(library'[up[u].newId])]_vars

\* an Upload whose asset insert failed for another reason than the dedup race
\* was answered server_error, and the bytes it moved into the library are
\* still there
C35_LibraryFileLeft ==
    \E u \in Uploaders :
        /\ up[u].pc = "done" /\ up[u].ret = "insertError"
        /\ up[u].resp.code = "server_error"
        /\ up[u].newId \in DOMAIN library
        /\ sha256_file_hex(library[up[u].newId]) = up[u].shaHex
        /\ file_size(library[up[u].newId]) = up[u].sizeClaim
        /\ lookupFileIdByHashSize(books, up[u].shaHex, up[u].sizeClaim) = ""

\* the file at an asset row's location has the row's hash and size
BytesAsRecorded(r) ==
    /\ r.location \in DOMAIN library
    /\ sha256_file_hex(library[r.location]) = r.sha256
    /\ file_size(library[r.location]) = r.filesize

\* C36: no Upload changes the bytes stored for an asset that is already
\* committed: for every committed asset, the file at its storageLocation has
\* the recorded hash and size after any Upload, including an Upload that
\* supplies that asset's fileId together with different content and an Upload
\* that ends in an error.
C36_CommittedBytesKept ==
    \A r \in books : BytesAsRecorded(r)

\* every request has returned, and the file of a committed asset holds bytes
\* of another hash than the asset row records
C36_BytesReplaced ==
    /\ \A u \in Uploaders : up[u].pc \in {"idle", "done"}
    /\ \E r \in books :
          /\ r.location \in DOMAIN library
          /\ sha256_file_hex(library[r.location]) \in Hashes \ {r.sha256}

\* C37: once a bookmark or highlight is tombstoned, its deletedAt changes only
\* through an applied Push of that same key: a Delete of that key, and a Delete
\* of its parent book, both leave the deletedAt of an already tombstoned
\* bookmark or highlight unchanged.
C37_TombstoneTimeKept ==
    [][Deleted =>
          \A t \in {"user_bookmarks", "user_highlights"} :
          \A k \in DOMAIN db[t] :
             db[t][k].deleted_at # NULL => db'[t][k].deleted_at = db[t][k].deleted_at]_vars

\* a live book has a bookmark or highlight that was tombstoned before the
\* clock's last step, a Delete of the book can follow, and the UPDATE of its
\* cascade gives that tombstone the time of the book's Delete
C37_TombstoneRestamped ==
    /\ nOps < MaxCascadeOps
    /\ \E bk \in DOMAIN db["user_books"] :
          /\ db["user_books"][bk].deleted_at = NULL
          /\ \E t \in {"user_bookmarks", "user_highlights"} :
             \E k \in ChildrenOf(t, bk) :
                /\ db[t][k].deleted_at # NULL
                /\ db[t][k].deleted_at < now
                /\ softDeleteAll(t, bk[1], bk[2], now)[k].deleted_at = now

\* C38: with a server clock that never goes backwards and requests applied one
\* at a time, the server timestamp coalesce(deletedAt, updatedAt) of every
\* record never decreases over any sequence of Push (forced or not) and Delete,
\* and every tombstoned row has updatedAt equal to deletedAt.
C38_ServerTimeMonotone ==
    /\ [](\A t \in DOMAIN db : \A k \in DOMAIN db[t] :
             db[t][k].deleted_at # NULL => db[t][k].updated_at = db[t][k].deleted_at)
    /\ [][\A t \in DOMAIN db : \A k \in DOMAIN db[t] :
             /\ k \in DOMAIN db'[t]
             /\ tsOf(db'[t][k]) >= tsOf(db[t][k])]_vars

\* a row that was live was tombstoned after the clock had moved on: both of
\* its timestamps are the time of the Delete
C38_Witness ==
    /\ resp.op = "delete" /\ resp.code = "ok" /\ resp.prior = "live"
    /\ resp.ts > 1
    /\ StorageOf(resp.table) # ""
    /\ resp.key \in DOMAIN db[StorageOf(resp.table)]
    /\ db[StorageOf(resp.table)][resp.key].deleted_at = resp.ts
    /\ db[StorageOf(resp.table)][resp.key].updated_at = resp.ts
    /\ tsOf(db[StorageOf(resp.table)][resp.key]) = now

\* the rows of table t that belong to one owner
OwnRows(t, owner) == [k \in {x \in DOMAIN db[t] : x[1] = owner} |-> db[t][k]]

\* what the owner's rows alone say about a key
OwnPrior(t, key) ==
    LET mine == OwnRows(t, key[1])
    IN  IF key \notin DOMAIN mine THEN "absent"
        ELSE IF mine[key].deleted_at # NULL THEN "tombstoned" ELSE "live"

\* C39: owner isolation. Probe, Pull-one, Pull-delta, Push and Delete made
\* with a token of user A read and change only rows whose owner is A: the rows
\* of every other owner are the same after the request, and what A is answered
\* is what A's own rows determine, whatever rows other users hold.
C39_OwnerIsolation ==
    [][( \/ nOps' = nOps + 1
         \/ feed.phase = "paging" /\ resp'.op = "getSince" )
       => LET A == resp'.key[1]
              t == IF resp'.op = "get" THEN listStorage(resp'.table)
                   ELSE StorageOf(resp'.table)
              mine == OwnRows(t, A)
              key == resp'.key
          IN  /\ \A s \in DOMAIN db :
                    /\ {k \in DOMAIN db'[s] : k[1] # A} = {k \in DOMAIN db[s] : k[1] # A}
                    /\ \A k \in DOMAIN db[s] : k[1] # A => db'[s][k] = db[s][k]
              /\ resp'.op \in {"push", "delete"} => resp'.prior = OwnPrior(t, key)
              /\ resp'.op = "delete" => (resp'.code = "not_found" <=> key \notin DOMAIN mine)
              /\ resp'.op = "probe" =>
                    /\ resp'.exists <=> OwnPrior(t, key) = "live"
                    /\ resp'.deleted <=> OwnPrior(t, key) = "tombstoned"
                    /\ resp'.ts = IF key \notin DOMAIN mine THEN 0 ELSE tsOf(mine[key])
              /\ resp'.op = "get" =>
                    /\ resp'.exists <=> key \in DOMAIN mine
                    /\ resp'.deleted <=> OwnPrior(t, key) = "tombstoned"
                    /\ resp'.ts = IF key \notin DOMAIN mine THEN 0 ELSE mine[key].updated_at
              /\ resp'.op = "getSince" =>
                    /\ A = feed.owner
                    /\ \A i \in DOMAIN PageRows : PageRows[i] \in DOMAIN mine
                    /\ Len(PageRows) = Min(clampLimit(feed.limit),
                                           Cardinality({k \in DOMAIN mine :
                                                           tsOf(mine[k]) >= feed.since}))
                    /\ resp'.ts \in {feed.since} \cup {tsOf(mine[k]) : k \in DOMAIN mine}]_vars

\* a Probe of one owner was answered "never seen" while another owner holds a
\* live row for the same table, book and item id
C39_Witness ==
    /\ resp.op = "probe" /\ resp.code = "ok" /\ ~resp.exists /\ ~resp.deleted
    /\ resp.key \notin DOMAIN db[StorageOf(resp.table)]
    /\ \E k \in DOMAIN db[StorageOf(resp.table)] :
          /\ k[1] # resp.key[1] /\ k[2] = resp.key[2] /\ k[3] = resp.key[3]
          /\ db[StorageOf(resp.table)][k].deleted_at = NULL

\* C40: Upload puts the verified file at its library location before it
\* inserts the asset row, so in every state in which an asset row is visible to
\* Resolve-by-hash, Upload dedup or Download, the file at its storageLocation
\* already exists with the recorded size.
C40_FileBeforeRow ==
    \A r \in books :
        /\ r.location \in DOMAIN library
        /\ file_size(library[r.location]) = r.filesize

\* the ordering alone: a row is never inserted before its file is in place, and
\* no step of an Upload takes a file away
C40_RowHasFile ==
    \A r \in books : r.location \in DOMAIN library

\* every request has returned, and the file of a visible asset row has another
\* size than the row records
C40_SizeDiffers ==
    /\ \A u \in Uploaders : up[u].pc \in {"idle", "done"}
    /\ \E r \in books :
          /\ lookupFileIdByHashSize(books, r.sha256, r.filesize) = r.file_id
          /\ r.location \in DOMAIN library
          /\ file_size(library[r.location]) # r.filesize
          /\ DownloadResult(r.file_id).code = "server_error"

====
